---- MODULE Spec2Model ----
(***************************************************************************)
(* Orphan detection and remediation of the gongshow doctor package         *)
(* (OrphanProcessCheck, OrphanSessionCheck) as state machines over the     *)
(* ambient process table, the tmux pane registry and the tmux session list.*)
(***************************************************************************)
EXTENDS Integers, Sequences, FiniteSets, TLC

VARIABLES
    \* ---- ambient OS state (process table, tmux) ----
    parent,          \* pid -> parent pid (0 for init's parent)
    alive,           \* pids that currently exist
    panes,           \* foreground pids of the tmux panes
    servers,         \* pids of the tmux server processes
    \* ---- OrphanProcessCheck object and the Fix call in progress ----
    orphanProcesses, \* c.orphanProcesses: sequence of processInfo
    pc,              \* "idle" | "verify" | "kill" (position inside Fix's loop)
    fixIdx,          \* index of the candidate the loop is at
    panePIDSet,      \* Fix's local panePIDSet
    killed,          \* Fix's local killed
    skipped,         \* Fix's local skipped
    lastErr,         \* Fix's local lastErr # nil
    dryRun,          \* ctx.DryRun of the Fix call in progress
    dryReport,       \* pids printed as "[dry-run] Would kill PID"
    runStatus,       \* Status of the last Run result
    hRunErr,         \* observer: the listings that failed in the last Run
    fixResult,       \* return value of the last Fix: "nil" | "err" | "running" | "none"
    sigLog,          \* syscallKill calls of the current Fix pass, in order
    \* ---- observers (history of the current pass) ----
    hHandled,        \* one record per candidate the loop has handled
    hBegin,          \* what the environment looked like when Fix sampled
    hQuiet,          \* no environment step since Fix sampled
    hFresh,          \* pids classified orphan by the most recent Run, not yet consumed
    steps,           \* number of Run calls, Fix calls and environment steps made
    \* ---- one isolated call of isOrphanProcess ----
    walkResult,      \* what the call returned (done is FALSE before it)
    \* ---- tmux sessions, the workspace and the OrphanSessionCheck object ----
    sessions,        \* names of the tmux sessions that exist
    rigDirs,         \* directories under the town root holding polecats/ or crew/
    rigsJson,        \* whether <townRoot>/mayor/rigs.json exists
    townSessions,    \* <<session.MayorSessionName(), session.DeaconSessionName()>>
    orphanSessions,  \* c.orphanSessions
    validCount,      \* Run's validCount
    sessRunStatus,   \* Status of the last Run result
    sessFixResult,   \* return value of the last Fix
    sessDryRun,      \* ctx.DryRun of the last Fix
    sessLog,         \* events logged and KillSession calls of the last Fix, in order
    sRun,            \* observer: what the most recent Run listed and saw
    \* ---- one isolated call of Tmux.wrapError ----
    errText,         \* the stderr text handed to wrapError
    errResult,       \* what wrapError returned (done is FALSE before the call)
    \* ---- the session controller (Tmux) and one named session ----
    tServer,         \* a tmux server is running
    tState,          \* "Absent" | "Zombie" | "AgentRunning"
    tKill,           \* kill-session was sent and has not taken effect yet
    epc,             \* position inside EnsureSessionFresh: "idle" | "kill" | "wait" | "create"
    eSeen,           \* state of the session as the call in progress found it
    eResult,         \* return value of the last EnsureSessionFresh ("none" before any)
    eOps,            \* tmux commands the current / last call issued, in order
    eJust,           \* observer: the last call has returned and nothing moved since
    eOnFresh,        \* observer: the call runs on a session the previous call just created
    qResult,         \* what the last session query returned
    tSteps,          \* calls, queries and environment steps made
    \* ---- /proc process tree and the GetAllDescendants call ----
    procParent,      \* pid -> parent pid (0: not a process of the tree)
    childrenOrder,   \* order of the pids in a children file: "asc" | "desc"
    procGone,        \* pid whose children file cannot be read (0: none)
    descRoot,        \* argument of the GetAllDescendants call
    descResult,      \* [done, list]: what GetAllDescendants returned
    \* ---- kernel process state and the SignalAll / Exists call ----
    procAlive,       \* pids that exist
    procForeign,     \* pid the caller may not signal (0: none)
    sigCall,         \* "none" | "subtree" | "broadcast" | "exists"
    sigPids,         \* SignalAll's argument pids
    sigIdx,          \* entries of pids the loop has handled
    sent,            \* SignalAll's local sent
    sigTrace,        \* observer: one record per syscall.Kill, in order
    sigReturn,       \* [done, value]: what the call returned
    \* ---- /proc directory and the pattern scans ----
    procDir,         \* entries of /proc, in ReadDir order
    procDirErr,      \* os.ReadDir("/proc") fails
    scanPattern,     \* the pattern argument
    scanResult,      \* [done, count, found]: CountByPattern and FindByPattern results
    \* ---- process names and the descendant search ----
    procComm,        \* pid -> content of /proc/<pid>/comm ("" when unreadable or empty)
    matchResult,     \* [done, found]: what HasDescendantMatching returned
    \* ---- session-name grammar ----
    agentId,         \* [rig, role, name]: the identity that is encoded
    sessionId,       \* [done, name, agent]: the session name and what it decodes to
    \* ---- bd daemon / bd activity processes and StopAllBdProcesses ----
    bdInstalled,     \* exec.LookPath("bd") succeeds
    bdProcs,         \* class -> number of processes whose command line matches
    bdArgs,          \* [dryRun, force]: the arguments of the call
    bdpc,            \* [at, class]: position of the call
    bdLocals,        \* class -> [before, killed, remaining]: locals of the stop functions
    bdCounts,        \* daemonsBefore, activityBefore of StopAllBdProcesses
    bdReturn,        \* [done, daemonsKilled, activityKilled, err]
    bdTrace          \* observer: the counts read and the signals sent, in order

osVars   == <<parent, alive, panes, servers>>
fixVars  == <<pc, fixIdx, panePIDSet, killed, skipped, lastErr, dryRun, dryReport,
              fixResult, sigLog>>
histVars == <<hHandled, hBegin, hQuiet, hFresh>>
procVars == <<osVars, orphanProcesses, fixVars, runStatus, hRunErr, histVars, steps>>

walkVars == <<walkResult>>

NoWalk == [done |-> FALSE, orphan |-> FALSE, lookups |-> 0, trail |-> <<>>]

sessVars == <<sessions, rigDirs, rigsJson, townSessions, orphanSessions, validCount,
              sessRunStatus, sessFixResult, sessDryRun, sessLog, sRun>>

errVars == <<errText, errResult>>

NoErrCall == [done |-> FALSE]

\* The parts of the state that neither doctor check touches.
tmuxVars == <<tServer, tState, tKill, epc, eSeen, eResult, eOps, eJust, eOnFresh,
              qResult, tSteps>>

NoQuery == [op |-> "none"]
NoResult == [kind |-> "none"]

treeVars == <<procParent, childrenOrder, procGone, descRoot, descResult>>

NoDescCall == [done |-> FALSE, list |-> <<>>]

killVars == <<procAlive, procForeign, sigCall, sigPids, sigIdx, sent, sigTrace,
              sigReturn>>

NoReturn == [done |-> FALSE]

scanVars == <<procDir, procDirErr, scanPattern, scanResult>>

matchVars == <<procComm, matchResult>>

NoMatch == [done |-> FALSE]

gramVars == <<agentId, sessionId>>

NoAgent == [rig |-> <<>>, role |-> "none", name |-> <<>>]
NoSession == [done |-> FALSE]

bdVars == <<bdInstalled, bdProcs, bdArgs, bdpc, bdLocals, bdCounts, bdReturn, bdTrace>>

BdClasses == {"daemon", "activity"}
BdIdle == [at |-> "idle", class |-> "none"]
NoStop == [before |-> 0, killed |-> 0, remaining |-> 0]
NoBdReturn == [done |-> FALSE]

tailVars == <<matchVars, gramVars, bdVars>>

NoScan == [done |-> FALSE]

otherVars == <<errVars, tmuxVars, treeVars, killVars, scanVars, tailVars>>

vars == <<procVars, walkVars, sessVars, otherVars>>

\* What the actions of the process check leave alone.
outsideProc == <<walkVars, sessVars, otherVars>>

\* ------------------------------------------------------------------ bounds
NumPids == 5      \* pids 1..NumPids in the process table
MaxSteps == 3     \* Run calls, Fix calls and environment steps per behaviour
WalkMaxPid == 21  \* pids 1..WalkMaxPid in the tables isOrphanProcess is applied to
WalkCycle == 3    \* how far up a corrupted parent link may point
ChainDepth == 20  \* length of the ancestor chain of the depth-bound case

Pids        == 1..NumPids
InitPid     == 1
RuntimePids == {NumPids - 1, NumPids}   \* processes whose command matches runtimePattern
ShellPids   == Pids \ ({1, 2} \cup RuntimePids)   \* shells started by the tmux server

\* The session check at rest, for the specifications that do not exercise it.
NoRun == [classified |-> FALSE, listErr |-> FALSE, listed |-> <<>>, rigs |-> {}]
SessParked ==
    /\ sessions = {} /\ rigDirs = {} /\ rigsJson = FALSE /\ townSessions = <<<<>>, <<>>>>
    /\ orphanSessions = <<>> /\ validCount = 0
    /\ sessRunStatus = "none" /\ sessFixResult = "none" /\ sessDryRun = FALSE
    /\ sessLog = <<>> /\ sRun = NoRun

ErrParked == errText = <<>> /\ errResult = NoErrCall

TmuxParked ==
    /\ tServer = FALSE /\ tState = "Absent" /\ tKill = FALSE
    /\ epc = "idle" /\ eSeen = "none" /\ eResult = NoResult /\ eOps = <<>>
    /\ eJust = FALSE /\ eOnFresh = FALSE /\ qResult = NoQuery /\ tSteps = 0

TreeParked ==
    /\ procParent = <<>> /\ childrenOrder = "asc" /\ procGone = 0
    /\ descRoot = 0 /\ descResult = NoDescCall

KillParked ==
    /\ procAlive = {} /\ procForeign = 0 /\ sigCall = "none" /\ sigPids = <<>>
    /\ sigIdx = 0 /\ sent = 0 /\ sigTrace = <<>> /\ sigReturn = NoReturn

ScanParked ==
    /\ procDir = <<>> /\ procDirErr = FALSE /\ scanPattern = <<>> /\ scanResult = NoScan

\* The process names and the descendant search at rest.
MatchParked == procComm = <<>> /\ matchResult = NoMatch

GramParked == agentId = NoAgent /\ sessionId = NoSession

BdParked ==
    /\ bdInstalled = FALSE /\ bdProcs = [c \in BdClasses |-> 0]
    /\ bdArgs = [dryRun |-> FALSE, force |-> FALSE] /\ bdpc = BdIdle
    /\ bdLocals = [c \in BdClasses |-> NoStop] /\ bdCounts = [c \in BdClasses |-> 0]
    /\ bdReturn = NoBdReturn /\ bdTrace = <<>>

TailParked == MatchParked /\ GramParked /\ BdParked

OthersParked ==
    ErrParked /\ TmuxParked /\ TreeParked /\ KillParked /\ ScanParked /\ TailParked

\* ------------------------------------------------------------ process table
RECURSIVE SortedSeq(_)
SortedSeq(S) ==
    IF S = {} THEN <<>>
    ELSE LET m == CHOOSE x \in S : \A y \in S : x <= y
         IN  <<m>> \o SortedSeq(S \ {m})

\* ps -p <pid> -o ppid= : fails when the process does not exist.
GetParentPID(pid) ==
    IF pid \in alive THEN [ok |-> TRUE, ppid |-> parent[pid]]
                     ELSE [ok |-> FALSE, ppid |-> 0]

\* ps -eo pid,ppid,comm filtered by runtimePattern, in pid order.
ListRuntimeProcesses ==
    LET live == SortedSeq(RuntimePids \cap alive)
    IN  [i \in 1..Len(live) |-> [pid |-> live[i], ppid |-> parent[live[i]]]]

\* syscall.Kill(pid, sig): ESRCH when the process does not exist.
syscallKill(pid) == pid \in alive

maxAncestryDepth == 8

\* Variant: the depth test is off by one.
RECURSIVE WalkLoop_offByOne(_, _, _, _, _)
WalkLoop_offByOne(depth, currentPPID, trail, lookups, tmuxPIDs) ==
    IF ~(depth <= maxAncestryDepth /\ currentPPID > 1
         /\ currentPPID \notin {trail[i] : i \in 1..Len(trail)})
    THEN [orphan |-> TRUE, lookups |-> lookups, trail |-> trail]
    ELSE IF currentPPID \in tmuxPIDs
    THEN [orphan |-> FALSE, lookups |-> lookups, trail |-> Append(trail, currentPPID)]
    ELSE LET next == GetParentPID(currentPPID)
         IN  IF ~next.ok
             THEN [orphan |-> TRUE, lookups |-> lookups + 1,
                   trail |-> Append(trail, currentPPID)]
             ELSE WalkLoop_offByOne(depth + 1, next.ppid, Append(trail, currentPPID),
                                    lookups + 1, tmuxPIDs)

\* The loop of isOrphanProcess; lookups counts the GetParentPID calls made,
\* trail lists the ancestors compared with tmuxPIDs, in order.
RECURSIVE WalkLoop(_, _, _, _, _)
WalkLoop(depth, currentPPID, trail, lookups, tmuxPIDs) ==
    IF ~(depth < maxAncestryDepth /\ currentPPID > 1
         /\ currentPPID \notin {trail[i] : i \in 1..Len(trail)})
    THEN [orphan |-> TRUE, lookups |-> lookups, trail |-> trail]
    ELSE IF currentPPID \in tmuxPIDs
    THEN [orphan |-> FALSE, lookups |-> lookups, trail |-> Append(trail, currentPPID)]
    ELSE LET next == GetParentPID(currentPPID)
         IN  IF ~next.ok
             THEN [orphan |-> TRUE, lookups |-> lookups + 1,
                   trail |-> Append(trail, currentPPID)]
             ELSE WalkLoop(depth + 1, next.ppid, Append(trail, currentPPID),
                           lookups + 1, tmuxPIDs)

\* Variant: the walk starts at the process itself, not at its parent.
OrphanWalk_fromSelf(proc, tmuxPIDs) == WalkLoop(0, proc.pid, <<>>, 0, tmuxPIDs)

\* Variant: the walk always starts from the parent cached in the candidate.
OrphanWalk_cachedParent(proc, tmuxPIDs) == WalkLoop(0, proc.ppid, <<>>, 1, tmuxPIDs)

OrphanWalk(proc, tmuxPIDs) ==
    LET first == GetParentPID(proc.pid)
        currentPPID == IF first.ok THEN first.ppid ELSE proc.ppid
    IN  WalkLoop(0, currentPPID, <<>>, 1, tmuxPIDs)

\* Variant: the walk starts from the parent cached at Run time.
isOrphanProcess_cachedParent(proc, tmuxPIDs) ==
    WalkLoop(0, proc.ppid, <<>>, 1, tmuxPIDs).orphan

\* Variant: the Run-time classification is trusted, nothing is re-read.
isOrphanProcess_trusted(proc, tmuxPIDs) == TRUE

isOrphanProcess(proc, tmuxPIDs) == OrphanWalk(proc, tmuxPIDs).orphan

\* getTmuxSessionPIDs: a failed listing ends the collection; the error is dropped.
getTmuxSessionPIDs(serverErr, paneErr) ==
    IF serverErr THEN {}
    ELSE IF paneErr THEN servers
    ELSE servers \cup panes

\* Variant: Fix builds its registry the way Run does.
FixSample_likeRun(serverErr) == getTmuxSessionPIDs(serverErr, FALSE)

\* Fix's registry: pane pids, plus the server pids (their listing error is ignored).
FixSample(serverErr) == panes \cup (IF serverErr THEN {} ELSE servers)

\* Fix's return value after the loop.
\* Variant: any failed kill makes the pass fail.
FixReturn_anyErr(dry, anyErr, nKilled) ==
    IF dry THEN "nil"
    ELSE IF anyErr THEN "err"
    ELSE "nil"

FixReturn(dry, anyErr, nKilled) ==
    IF dry THEN "nil"
    ELSE IF anyErr /\ nKilled = 0 THEN "err"
    ELSE "nil"

\* ------------------------------------------------- what the environment is
\* The k-th ancestor of pid in the current process table (0 past the root or
\* past a process that no longer exists).
RECURSIVE NthAncestor(_, _)
NthAncestor(pid, k) ==
    IF k = 0 THEN pid
    ELSE LET a == NthAncestor(pid, k - 1)
         IN  IF a \in alive THEN parent[a] ELSE 0

\* pid has an ancestor in reg among its first n ancestors.
AttachedWithin(pid, reg, n) == \E k \in 1..n : NthAncestor(pid, k) \in reg

\* pid has an ancestor in reg at any distance.
HasRegistryAncestor(pid, reg) == AttachedWithin(pid, reg, NumPids)

IsAncestor(p, q) == \E k \in 1..NumPids : NthAncestor(q, k) = p

CachedPids == {orphanProcesses[i].pid : i \in 1..Len(orphanProcesses)}

\* The process table after p has exited: its children go to init, its panes
\* (or, for a server, the panes it serves) leave the registry.
ParentAfterExit(p) == [q \in Pids |-> IF parent[q] = p THEN InitPid ELSE parent[q]]
PanesAfterExit(p)  == {q \in panes : q # p /\ parent[q] # p}

\* The process check at rest, for the specifications that do not exercise it.
ProcParked ==
    /\ alive = {} /\ parent = [p \in Pids |-> 0] /\ panes = {} /\ servers = {}
    /\ orphanProcesses = <<>>
    /\ pc = "idle" /\ fixIdx = 0 /\ panePIDSet = {}
    /\ killed = 0 /\ skipped = 0 /\ lastErr = FALSE /\ dryRun = FALSE
    /\ dryReport = <<>> /\ runStatus = "none" /\ fixResult = "none"
    /\ hRunErr = {}
    /\ sigLog = <<>>
    /\ hHandled = <<>> /\ hBegin = [panes |-> {}, servers |-> {}, attached |-> {},
                                    paneListed |-> FALSE, serversListed |-> FALSE]
    /\ hQuiet = TRUE /\ hFresh = {}

\* ------------------------------------------------------------------ Init
Init ==
    /\ alive = Pids
    /\ servers = {2}
    /\ parent \in {f \in [Pids -> 0..NumPids] :
                     /\ f[1] = 0 /\ f[2] = 1
                     /\ \A p \in ShellPids : f[p] = 2
                     /\ \A p \in RuntimePids : f[p] \in {InitPid} \cup ShellPids}
    /\ panes \in SUBSET ShellPids
    /\ orphanProcesses = <<>>
    /\ pc = "idle" /\ fixIdx = 0 /\ panePIDSet = {}
    /\ killed = 0 /\ skipped = 0 /\ lastErr = FALSE /\ dryRun = FALSE
    /\ dryReport = <<>> /\ runStatus = "none" /\ fixResult = "none"
    /\ hRunErr = {}
    /\ sigLog = <<>>
    /\ hHandled = <<>> /\ hBegin = [panes |-> {}, servers |-> {}, attached |-> {},
                                    paneListed |-> FALSE, serversListed |-> FALSE]
    /\ hQuiet = TRUE /\ hFresh = {}
    /\ steps = 0
    /\ walkResult = NoWalk
    /\ SessParked
    /\ OthersParked

\* ----------------------------------------------------------- environment
EnvFrame ==
    /\ steps \in 1..(MaxSteps - 1)
    /\ steps' = steps + 1
    /\ hQuiet' = FALSE
    /\ UNCHANGED <<orphanProcesses, fixVars, runStatus, hRunErr, hHandled, hBegin, hFresh>>
    /\ UNCHANGED outsideProc

\* A runtime process gets a new parent (never one of its own descendants).
Reparent(p, q) ==
    /\ p \in (RuntimePids \cap alive) \ panes
    /\ q \in alive \ {p}
    /\ ~IsAncestor(p, q)
    /\ parent[p] # q
    /\ parent' = [parent EXCEPT ![p] = q]
    /\ UNCHANGED <<alive, panes, servers>>
    /\ EnvFrame

\* A process exits on its own.
ProcExit(p) ==
    /\ p \in alive \ ({InitPid} \cup servers)
    /\ alive' = alive \ {p}
    /\ parent' = ParentAfterExit(p)
    /\ panes' = PanesAfterExit(p)
    /\ servers' = servers \ {p}
    /\ EnvFrame

\* tmux opens a pane whose foreground process is p (a child of the server).
PaneOpen(p) ==
    /\ p \in alive \ panes
    /\ parent[p] \in servers
    /\ panes' = panes \cup {p}
    /\ UNCHANGED <<parent, alive, servers>>
    /\ EnvFrame

\* tmux closes the pane of p; the process stays.
PaneClose(p) ==
    /\ p \in panes
    /\ panes' = panes \ {p}
    /\ UNCHANGED <<parent, alive, servers>>
    /\ EnvFrame

\* ------------------------------------------------- OrphanProcessCheck.Run
\* The listing calls of one Run that returned an error: ListPanePIDs is only
\* called after ListTmuxServerPIDs succeeded.
FailedListings(serverErr, paneErr, procErr) ==
    (IF serverErr THEN {"ListTmuxServerPIDs"}
     ELSE IF paneErr THEN {"ListPanePIDs"} ELSE {})
    \cup (IF procErr THEN {"ListRuntimeProcesses"} ELSE {})

Run(serverErr, paneErr, procErr) ==
    /\ pc = "idle"
    /\ steps < MaxSteps
    /\ steps' = steps + 1
    /\ LET tmuxPIDs     == getTmuxSessionPIDs(serverErr, paneErr)
           runtimeProcs == ListRuntimeProcesses
           outsideTmux  == SelectSeq(runtimeProcs,
                                     LAMBDA proc : isOrphanProcess(proc, tmuxPIDs))
       IN  IF procErr
           THEN /\ runStatus' = "Warning"
                /\ hFresh' = {}
                /\ UNCHANGED orphanProcesses
           ELSE IF Len(runtimeProcs) = 0
           THEN /\ runStatus' = "OK"
                /\ hFresh' = {}
                /\ UNCHANGED orphanProcesses
           ELSE /\ orphanProcesses' = outsideTmux
                /\ hFresh' = {outsideTmux[i].pid : i \in 1..Len(outsideTmux)}
                /\ runStatus' = IF Len(outsideTmux) = 0 THEN "OK" ELSE "Warning"
    /\ hRunErr' = FailedListings(serverErr, paneErr, procErr)
    /\ UNCHANGED <<osVars, fixVars, hHandled, hBegin, hQuiet>>
    /\ UNCHANGED outsideProc

\* ------------------------------------------------- OrphanProcessCheck.Fix
\* Entry of Fix up to the loop: the empty-cache return, the registry sample.
\* Variant: Fix goes on with an empty pane list when ListPanePIDs fails.
FixStartError_none(paneErr, serverErr) == FALSE

\* Fix returns at once with an error when ListPanePIDs fails; the error of
\* ListTmuxServerPIDs is dropped.
FixStartError(paneErr, serverErr) == paneErr

FixBegin(dry, paneErr, serverErr) ==
    /\ pc = "idle"
    /\ steps < MaxSteps
    /\ steps' = steps + 1
    /\ dryRun' = dry
    /\ sigLog' = <<>> /\ dryReport' = <<>> /\ hHandled' = <<>>
    /\ killed' = 0 /\ skipped' = 0 /\ lastErr' = FALSE
    /\ hQuiet' = TRUE
    /\ hBegin' = [panes |-> panes, servers |-> servers,
                  attached |-> {p \in CachedPids \cap alive :
                                  AttachedWithin(p, panes \cup servers, maxAncestryDepth)},
                  paneListed |-> Len(orphanProcesses) > 0 /\ ~paneErr,
                  serversListed |-> Len(orphanProcesses) > 0 /\ ~paneErr /\ ~serverErr]
    /\ IF Len(orphanProcesses) = 0
       THEN /\ fixResult' = "nil"
            /\ hFresh' = {}
            /\ UNCHANGED <<pc, fixIdx, panePIDSet>>
       ELSE IF FixStartError(paneErr, serverErr)
       THEN /\ fixResult' = "err"
            /\ hFresh' = {}
            /\ UNCHANGED <<pc, fixIdx, panePIDSet>>
       ELSE /\ panePIDSet' = FixSample(serverErr)
            /\ fixResult' = "running"
            /\ pc' = "verify"
            /\ fixIdx' = 1
            /\ UNCHANGED hFresh
    /\ UNCHANGED <<osVars, orphanProcesses, runStatus, hRunErr>>
    /\ UNCHANGED outsideProc

\* The loop moves to the next candidate, or Fix returns.
Advance(nKilled, anyErr) ==
    IF fixIdx < Len(orphanProcesses)
    THEN /\ fixIdx' = fixIdx + 1
         /\ pc' = "verify"
         /\ fixResult' = "running"
         /\ UNCHANGED hFresh
    ELSE /\ fixIdx' = 0
         /\ pc' = "idle"
         /\ fixResult' = FixReturn(dryRun, anyErr, nKilled)
         /\ hFresh' = {}

\* Variant: the existence probe is not looked at.
Decide_noProbe(stillOrphan, exists, dry) ==
    IF ~stillOrphan THEN "skipped"
    ELSE IF dry THEN "wouldkill"
    ELSE "kill"

\* Variant: the re-verification is not looked at.
Decide_noReverify(stillOrphan, exists, dry) ==
    IF ~exists THEN "vanished"
    ELSE IF dry THEN "wouldkill"
    ELSE "kill"

\* Variant: the dry-run branch is missing.
Decide_noDryRun(stillOrphan, exists, dry) ==
    IF ~stillOrphan THEN "skipped"
    ELSE IF ~exists THEN "vanished"
    ELSE "kill"

\* What the loop body decides for one candidate before any SIGTERM:
\* re-verification, then the signal-0 probe, then the dry-run branch.
Decide(stillOrphan, exists, dry) ==
    IF ~stillOrphan THEN "skipped"
    ELSE IF ~exists THEN "vanished"
    ELSE IF dry THEN "wouldkill"
    ELSE "kill"

Handled(proc, outcome) ==
    [pid |-> proc.pid, outcome |-> outcome,
     att |-> proc.pid \in alive /\ AttachedWithin(proc.pid, panePIDSet, maxAncestryDepth),
     exists |-> proc.pid \in alive,
     attNow |-> FALSE,
     quiet |-> hQuiet,
     sampleAge |-> Len(hHandled)]

\* Loop body up to the existence probe, for candidate fixIdx.
FixVerify ==
    /\ pc = "verify"
    /\ LET proc == orphanProcesses[fixIdx]
           stillOrphan == isOrphanProcess(proc, panePIDSet)
           exists == syscallKill(proc.pid)
           d == Decide(stillOrphan, exists, dryRun)
       IN  /\ sigLog' = IF stillOrphan THEN Append(sigLog, <<proc.pid, "0">>) ELSE sigLog
           /\ skipped' = IF d = "skipped" THEN skipped + 1 ELSE skipped
           /\ killed' = IF d = "wouldkill" THEN killed + 1 ELSE killed
           /\ dryReport' = IF d = "wouldkill" THEN Append(dryReport, proc.pid)
                           ELSE dryReport
           /\ hHandled' = Append(hHandled, Handled(proc, d))
           /\ IF d = "kill"
              THEN /\ pc' = "kill"
                   /\ UNCHANGED <<fixIdx, fixResult, hFresh>>
              ELSE Advance(killed', lastErr)
    /\ UNCHANGED <<osVars, orphanProcesses, panePIDSet, lastErr, dryRun, runStatus, hRunErr,
                   hBegin, hQuiet, steps>>
    /\ UNCHANGED outsideProc

\* The SIGTERM of the loop body, for candidate fixIdx.
FixKill ==
    /\ pc = "kill"
    /\ LET proc == orphanProcesses[fixIdx]
           ok == syscallKill(proc.pid)
           h == hHandled[fixIdx]
       IN  /\ sigLog' = Append(sigLog, <<proc.pid, "TERM">>)
           /\ killed' = IF ok THEN killed + 1 ELSE killed
           /\ lastErr' = (lastErr \/ ~ok)
           /\ hHandled' = [hHandled EXCEPT ![fixIdx] =
                 [h EXCEPT !.outcome = IF ok THEN "killed" ELSE "killfailed",
                           !.attNow = ok /\ HasRegistryAncestor(proc.pid,
                                                               panes \cup servers)]]
           /\ IF ok
              THEN /\ alive' = alive \ {proc.pid}
                   /\ parent' = ParentAfterExit(proc.pid)
                   /\ panes' = PanesAfterExit(proc.pid)
                   /\ servers' = servers \ {proc.pid}
              ELSE UNCHANGED osVars
           /\ Advance(killed', lastErr')
    /\ UNCHANGED <<orphanProcesses, panePIDSet, skipped, dryRun, dryReport, runStatus, hRunErr,
                   hBegin, hQuiet, steps>>
    /\ UNCHANGED outsideProc

Next ==
    \/ \E p, q \in Pids : Reparent(p, q)
    \/ \E p \in Pids : ProcExit(p)
    \/ \E p \in Pids : PaneOpen(p)
    \/ \E p \in Pids : PaneClose(p)
    \/ \E serverErr, paneErr, procErr \in BOOLEAN : Run(serverErr, paneErr, procErr)
    \/ \E dry, paneErr, serverErr \in BOOLEAN : FixBegin(dry, paneErr, serverErr)
    \/ FixVerify
    \/ FixKill

Spec == Init /\ [][Next]_vars

\* ------------------------------------ isOrphanProcess on synthetic tables
\* One call of isOrphanProcess on a process table that is a chain (pid p is
\* the child of p - 1) with at most one parent link j -> k set otherwise
\* (a reparenting, a root, or a cycle of a corrupted table), a registry of at
\* most one pid, and at most one process gone. The candidate was cached when
\* its parent was pid - 1.
WalkPids == 1..WalkMaxPid

WalkInit ==
    /\ \E c \in 2..WalkMaxPid :
       \E j \in {p \in 2..WalkMaxPid : c - p \in 0..(maxAncestryDepth + 1)} :
       \E k \in {0, 1, j - 1} \cup {q \in WalkPids : q - j \in 0..WalkCycle} :
       \E d \in {0} \cup {p \in 2..WalkMaxPid : c - p \in 0..2} :
          /\ parent = [p \in WalkPids |-> IF p = j THEN k ELSE p - 1]
          /\ alive = WalkPids \ {d}
          /\ orphanProcesses = <<[pid |-> c, ppid |-> c - 1]>>
          /\ panePIDSet \in {{}} \cup
                 {{r} : r \in {p \in 2..WalkMaxPid : c - p \in 0..(maxAncestryDepth + 2)}}
    /\ panes = {} /\ servers = {}
    /\ pc = "idle" /\ fixIdx = 0
    /\ killed = 0 /\ skipped = 0 /\ lastErr = FALSE /\ dryRun = FALSE
    /\ dryReport = <<>> /\ runStatus = "none" /\ fixResult = "none"
    /\ hRunErr = {}
    /\ sigLog = <<>>
    /\ hHandled = <<>> /\ hBegin = [panes |-> {}, servers |-> {}, attached |-> {},
                                    paneListed |-> FALSE, serversListed |-> FALSE]
    /\ hQuiet = TRUE /\ hFresh = {}
    /\ steps = 0
    /\ walkResult = NoWalk
    /\ SessParked
    /\ OthersParked

WalkApply ==
    /\ ~walkResult.done
    /\ walkResult' = [done |-> TRUE] @@ OrphanWalk(orphanProcesses[1], panePIDSet)
    /\ UNCHANGED <<procVars, sessVars, otherVars>>

WalkNext == WalkApply

WalkSpec == WalkInit /\ [][WalkNext]_vars

\* =================================================================
\* OrphanSessionCheck.  A session name is a sequence of tokens: words
\* that contain no '-' and the separator "-" itself, so that splitting
\* a name at '-' is computed from the name rather than assumed.
\* =================================================================

MaxSessions == 2    \* tmux sessions that exist at the same time

Sep == "-"

\* Index of the first separator of s at or after i, 0 when there is none.
RECURSIVE IndexSep(_, _)
IndexSep(s, i) ==
    IF i > Len(s) THEN 0
    ELSE IF s[i] = Sep THEN i
    ELSE IndexSep(s, i + 1)

\* strings.Split(s, "-"): every piece between separators, empty ones too.
RECURSIVE Split(_)
Split(s) ==
    LET i == IndexSep(s, 1)
    IN  IF i = 0 THEN <<s>>
        ELSE <<SubSeq(s, 1, i - 1)>> \o Split(SubSeq(s, i + 1, Len(s)))

\* strings.SplitN(s, "-", 3): at most three pieces, the last one unsplit.
SplitN3(s) ==
    LET i == IndexSep(s, 1)
        rest == SubSeq(s, i + 1, Len(s))
        j == IndexSep(rest, 1)
    IN  IF i = 0 THEN <<s>>
        ELSE IF j = 0 THEN <<SubSeq(s, 1, i - 1), rest>>
        ELSE <<SubSeq(s, 1, i - 1), SubSeq(rest, 1, j - 1),
               SubSeq(rest, j + 1, Len(rest))>>

\* Variant: every listed name is checked, whatever it starts with.
HasGtPrefix_any(s) == TRUE

\* strings.HasPrefix(s, "gt-")
HasGtPrefix(s) == Len(s) >= 2 /\ s[1] = "gt" /\ s[2] = Sep

isCrewSession(session) ==
    LET parts == Split(session)
    IN  Len(parts) >= 4 /\ parts[1] = <<"gt">> /\ parts[3] = <<"crew">>

getValidRigs == IF rigsJson THEN rigDirs ELSE {}

isValidSession_rolesOnly(sess, rigs, mayorSession, deaconSession) ==
    LET parts == SplitN3(sess)
    IN  \/ mayorSession # <<>> /\ sess = mayorSession
        \/ deaconSession # <<>> /\ sess = deaconSession
        \/ /\ Len(parts) >= 3
           /\ parts[2] \in rigs
           /\ parts[3] \in {<<"witness">>, <<"refinery">>}

isValidSession(sess, rigs, mayorSession, deaconSession) ==
    LET parts == SplitN3(sess)
    IN  \/ mayorSession # <<>> /\ sess = mayorSession
        \/ deaconSession # <<>> /\ sess = deaconSession
        \/ /\ Len(parts) >= 3
           /\ parts[2] \in rigs

\* The names a tmux server can hold in this model, in listing order.
SessionNames ==
    << <<"gt", Sep, "acme", Sep, "witness">>,
       <<"gt", Sep, "acme", Sep, "crew", Sep, "joe">>,
       <<"gt", Sep, "ghost", Sep, "crew", Sep, "joe">>,
       <<"gt", Sep, "my", Sep, "rig", Sep, "crew", Sep, "joe">>,
       <<"gt", Sep, "ghost", Sep, "toast">>,
       <<"gt", Sep, "acme">>,
       <<"gt", Sep, "town", Sep, "mayor">>,
       <<"hq", Sep, "mayor">>,
       <<"work">>,
       <<>> >>

NameSet == {SessionNames[i] : i \in 1..Len(SessionNames)}

RigNames == {<<"acme">>, <<"my", Sep, "rig">>}

TownNames == { << <<"hq", Sep, "mayor">>, <<"hq", Sep, "deacon">> >>,
               << <<"gt", Sep, "town", Sep, "mayor">>,
                  <<"gt", Sep, "town", Sep, "deacon">> >> }

\* lister.ListSessions() when it succeeds.
ListSessions == SelectSeq(SessionNames, LAMBDA n : n \in sessions)

\* ---- initial state of the session specification
SessInit ==
    /\ sessions \in {S \in SUBSET NameSet : Cardinality(S) <= MaxSessions}
    /\ rigDirs \in SUBSET RigNames
    /\ rigsJson \in BOOLEAN
    /\ townSessions \in TownNames
    /\ orphanSessions = <<>> /\ validCount = 0
    /\ sessRunStatus = "none" /\ sessFixResult = "none" /\ sessDryRun = FALSE
    /\ sessLog = <<>> /\ sRun = NoRun
    /\ ProcParked
    /\ steps = 0
    /\ walkResult = NoWalk
    /\ OthersParked

\* What the actions of the session check leave alone.
outsideSess == <<osVars, orphanProcesses, fixVars, runStatus, hRunErr, histVars, walkVars,
                 otherVars>>

\* ---- the world around the session check
SessEnvFrame ==
    /\ steps \in 1..(MaxSteps - 1)
    /\ steps' = steps + 1
    /\ UNCHANGED <<orphanSessions, validCount, sessRunStatus, sessFixResult,
                   sessDryRun, sessLog, sRun, townSessions, rigsJson>>
    /\ UNCHANGED outsideSess

SessionStart(n) ==
    /\ SessEnvFrame
    /\ n \notin sessions
    /\ Cardinality(sessions) < MaxSessions
    /\ sessions' = sessions \cup {n}
    /\ UNCHANGED rigDirs

SessionExit(n) ==
    /\ SessEnvFrame
    /\ n \in sessions
    /\ sessions' = sessions \ {n}
    /\ UNCHANGED rigDirs

\* A rig directory is created or removed.
RigChange(r) ==
    /\ SessEnvFrame
    /\ rigDirs' = IF r \in rigDirs THEN rigDirs \ {r} ELSE rigDirs \cup {r}
    /\ UNCHANGED sessions

\* ---- OrphanSessionCheck.Run
SessRun(listErr) ==
    /\ steps < MaxSteps
    /\ steps' = steps + 1
    /\ LET listed == ListSessions
           rigs == getValidRigs
           checked == SelectSeq(listed, LAMBDA n : n # <<>> /\ HasGtPrefix(n))
           orphans == SelectSeq(checked, LAMBDA n :
                          ~isValidSession(n, rigs, townSessions[1], townSessions[2]))
       IN  IF listErr
           THEN /\ sessRunStatus' = "Warning"
                /\ sRun' = [NoRun EXCEPT !.listErr = TRUE]
                /\ UNCHANGED <<orphanSessions, validCount>>
           ELSE IF Len(listed) = 0
           THEN /\ sessRunStatus' = "OK"
                /\ sRun' = NoRun
                /\ UNCHANGED <<orphanSessions, validCount>>
           ELSE /\ orphanSessions' = orphans
                /\ validCount' = Len(checked) - Len(orphans)
                /\ sessRunStatus' = IF Len(orphans) = 0 THEN "OK" ELSE "Warning"
                /\ sRun' = [classified |-> TRUE, listErr |-> FALSE, listed |-> listed,
                           rigs |-> rigs]
    /\ UNCHANGED <<sessions, rigDirs, rigsJson, townSessions, sessFixResult,
                   sessDryRun, sessLog>>
    /\ UNCHANGED outsideSess

\* ---- OrphanSessionCheck.Fix
\* The loop over the cache: live is the set of sessions that still exist,
\* log the LogFeed events and KillSession calls so far, err whether lastErr
\* is set.  KillSession succeeds exactly when the session exists.
TypeSessionDeath == "session_death"

\* events.SessionDeathPayload(session, agent, reason, caller)
SessionDeathPayload(session, agent, reason, caller) ==
    [session |-> session, agent |-> agent, reason |-> reason, caller |-> caller]

\* The call events.LogFeed(type, actor, payload) as the log keeps it; Fix
\* discards its result, written is whether the event reached the feed.
LogFeed(type, actor, payload, written) ==
    [op |-> "event", sess |-> actor, type |-> type, payload |-> payload,
     ok |-> written]

\* The call t.KillSession(sess) as the log keeps it.
KillSession(sess, ok) == [op |-> "kill", sess |-> sess, ok |-> ok]

RECURSIVE FixLoop(_, _, _, _, _)
\* Variant: the death event is logged after the kill.
FixLoop_killFirst(cache, live, log, err, feedOk) ==
    IF cache = <<>> THEN [live |-> live, log |-> log, err |-> err]
    ELSE LET sess == Head(cache)
             ok == sess \in live
         IN  IF isCrewSession(sess)
             THEN FixLoop(Tail(cache), live, log, err, feedOk)
             ELSE FixLoop(Tail(cache), live \ {sess},
                          log \o << KillSession(sess, ok),
                                    LogFeed(TypeSessionDeath, sess,
                                        SessionDeathPayload(sess, "unknown",
                                            "orphan cleanup", "gt doctor"), feedOk) >>,
                          err \/ ~ok, feedOk)

FixLoop(cache, live, log, err, feedOk) ==
    IF cache = <<>> THEN [live |-> live, log |-> log, err |-> err]
    ELSE LET sess == Head(cache)
             ok == sess \in live
         IN  IF isCrewSession(sess)
             THEN FixLoop(Tail(cache), live, log, err, feedOk)
             ELSE FixLoop(Tail(cache), live \ {sess},
                          log \o << LogFeed(TypeSessionDeath, sess,
                                        SessionDeathPayload(sess, "unknown",
                                            "orphan cleanup", "gt doctor"), feedOk),
                                    KillSession(sess, ok) >>,
                          err \/ ~ok, feedOk)

SessFix(dry, feedOk) ==
    /\ steps < MaxSteps
    /\ steps' = steps + 1
    /\ LET r == FixLoop(orphanSessions, sessions, <<>>, FALSE, feedOk)
       IN  /\ sessions' = r.live
           /\ sessLog' = r.log
           /\ sessFixResult' = IF r.err THEN "err" ELSE "nil"
    /\ sessDryRun' = dry
    /\ UNCHANGED <<rigDirs, rigsJson, townSessions, orphanSessions, validCount,
                   sessRunStatus, sRun>>
    /\ UNCHANGED outsideSess

SessNext ==
    \/ \E n \in NameSet : SessionStart(n)
    \/ \E n \in NameSet : SessionExit(n)
    \/ \E r \in RigNames : RigChange(r)
    \/ \E listErr \in BOOLEAN : SessRun(listErr)
    \/ \E dry \in BOOLEAN : \E feedOk \in BOOLEAN : SessFix(dry, feedOk)

SessSpec == SessInit /\ [][SessNext]_vars

\* =================================================================
\* Tmux.wrapError: the multiplexer's stderr text to an error value.  A
\* text is a sequence of tokens (words and punctuation marks); a pattern
\* occurs in it when its tokens occur in it contiguously.
\* =================================================================

MaxWords == 3     \* tokens in a stderr text

Contains(text, pat) ==
    \E i \in 1..(Len(text) - Len(pat) + 1) : SubSeq(text, i, i + Len(pat) - 1) = pat

ErrNoServer        == [kind |-> "sentinel", name |-> "ErrNoServer"]
ErrSessionExists   == [kind |-> "sentinel", name |-> "ErrSessionExists"]
ErrSessionNotFound == [kind |-> "sentinel", name |-> "ErrSessionNotFound"]
GenericError(stderr) == [kind |-> "generic", text |-> stderr]

\* Variant: "can't find session" is not recognised.
wrapError_oneNotFound(stderr) ==
    IF Contains(stderr, <<"no", "server", "running">>)
       \/ Contains(stderr, <<"error", "connecting">>) THEN ErrNoServer
    ELSE IF Contains(stderr, <<"duplicate", "session">>) THEN ErrSessionExists
    ELSE IF Contains(stderr, <<"session", "not", "found">>) THEN ErrSessionNotFound
    ELSE GenericError(stderr)

wrapError(stderr) ==
    IF Contains(stderr, <<"no", "server", "running">>)
       \/ Contains(stderr, <<"error", "connecting">>) THEN ErrNoServer
    ELSE IF Contains(stderr, <<"duplicate", "session">>) THEN ErrSessionExists
    ELSE IF Contains(stderr, <<"session", "not", "found">>)
            \/ Contains(stderr, <<"can't", "find", "session">>) THEN ErrSessionNotFound
    ELSE GenericError(stderr)

Words == {"no", "server", "running", "error", "connecting", "duplicate", "session",
          "not", "found", "can't", "find", ":", "test"}

RECURSIVE TextsOfLen(_)
TextsOfLen(n) ==
    IF n = 0 THEN {<<>>}
    ELSE {Append(t, w) : t \in TextsOfLen(n - 1), w \in Words}

Texts == UNION {TextsOfLen(n) : n \in 0..MaxWords}

ErrInit ==
    /\ errText \in Texts
    /\ errResult = NoErrCall
    /\ ProcParked
    /\ steps = 0
    /\ walkResult = NoWalk
    /\ SessParked
    /\ TmuxParked
    /\ TreeParked
    /\ KillParked
    /\ ScanParked
    /\ TailParked

ErrApply ==
    /\ ~errResult.done
    /\ errResult' = [done |-> TRUE, err |-> wrapError(errText)]
    /\ UNCHANGED <<errText, procVars, walkVars, sessVars, tmuxVars, treeVars, killVars,
                   scanVars, tailVars>>

ErrNext == ErrApply

ErrSpec == ErrInit /\ [][ErrNext]_vars

\* =================================================================
\* The session controller: Tmux operations on one named session and the
\* EnsureSessionFresh state machine.
\* =================================================================

MaxTmuxSteps == 5    \* calls, queries and environment steps per behaviour

Nil == [kind |-> "nil"]
Running == [kind |-> "running"]

\* What the tmux command writes to stderr in the current state (empty on
\* success).  new-session starts a server when none is running.
Stderr(cmd) ==
    IF cmd = "new-session"
    THEN IF tServer /\ tState # "Absent"
         THEN <<"duplicate", "session", ":", "test">> ELSE <<>>
    ELSE IF ~tServer THEN <<"no", "server", "running", "on", "/tmp/tmux">>
    ELSE IF cmd = "list-sessions" THEN <<>>
    ELSE IF tState = "Absent" THEN <<"can't", "find", "session", ":", "test">>
    ELSE <<>>

\* Tmux.run: the command's error after wrapError.
RunTmux(cmd) == IF Stderr(cmd) = <<>> THEN Nil ELSE wrapError(Stderr(cmd))

\* Variant: a missing server is reported as an error.
HasSession_strict ==
    LET err == RunTmux("has-session")
    IN  IF err = Nil THEN [has |-> TRUE, err |-> Nil]
        ELSE IF err = ErrSessionNotFound THEN [has |-> FALSE, err |-> Nil]
        ELSE [has |-> FALSE, err |-> err]

HasSession ==
    LET err == RunTmux("has-session")
    IN  IF err = Nil THEN [has |-> TRUE, err |-> Nil]
        ELSE IF err \in {ErrSessionNotFound, ErrNoServer} THEN [has |-> FALSE, err |-> Nil]
        ELSE [has |-> FALSE, err |-> err]

TmuxListSessions ==
    LET err == RunTmux("list-sessions")
    IN  IF err = Nil THEN [names |-> IF tState = "Absent" THEN {} ELSE {"test"},
                           err |-> Nil]
        ELSE IF err = ErrNoServer THEN [names |-> {}, err |-> Nil]
        ELSE [names |-> {}, err |-> err]

\* GetPaneCommand fails for a session that does not exist; IsAgentRunning
\* then answers false.
IsAgentRunning ==
    IF RunTmux("display-message") # Nil THEN FALSE
    ELSE tState = "AgentRunning"

IsClaudeRunning == IsAgentRunning

\* State of a session right after new-session: a plain shell.
FreshSessionState_agent == "AgentRunning"

FreshSessionState == "Zombie"

\* Variant: an existing session is taken as healthy.
EsfBranch_existsIsFine(has, agent) ==
    IF ~has THEN "create" ELSE "return"

\* What EnsureSessionFresh does after looking at the session.
EsfBranch(has, agent) ==
    IF ~has THEN "create"
    ELSE IF agent THEN "return"
    ELSE "kill"

\* Variant: create right after the check, without waiting for the kill.
CreateReady_naive(killPending) == TRUE

\* The create step waits until the kill has taken effect.
CreateReady(killPending) == ~killPending

SessionStateNow ==
    IF ~tServer \/ tState = "Absent" THEN "Absent" ELSE tState

TmuxInit ==
    /\ tServer \in BOOLEAN
    /\ tState \in (IF tServer THEN {"Absent", "Zombie", "AgentRunning"} ELSE {"Absent"})
    /\ tKill = FALSE
    /\ epc = "idle" /\ eSeen = "none" /\ eResult = NoResult /\ eOps = <<>>
    /\ eJust = FALSE /\ eOnFresh = FALSE /\ qResult = NoQuery /\ tSteps = 0
    /\ ProcParked
    /\ steps = 0
    /\ walkResult = NoWalk
    /\ SessParked
    /\ ErrParked
    /\ TreeParked
    /\ KillParked
    /\ ScanParked
    /\ TailParked

outsideTmux == <<procVars, walkVars, sessVars, errVars, treeVars, killVars, scanVars, tailVars>>

TmuxStep ==
    /\ tSteps < MaxTmuxSteps
    /\ tSteps' = tSteps + 1
    /\ UNCHANGED outsideTmux

\* ---- the world around the controller, between calls
TmuxEnv ==
    /\ TmuxStep
    /\ epc = "idle"
    /\ eJust' = FALSE
    /\ UNCHANGED <<tKill, epc, eSeen, eResult, eOps, eOnFresh, qResult>>

AgentStart ==
    /\ TmuxEnv
    /\ tServer /\ tState = "Zombie"
    /\ tState' = "AgentRunning"
    /\ UNCHANGED tServer

AgentExit ==
    /\ TmuxEnv
    /\ tServer /\ tState = "AgentRunning"
    /\ tState' = "Zombie"
    /\ UNCHANGED tServer

SessionEnds ==
    /\ TmuxEnv
    /\ tServer /\ tState # "Absent"
    /\ tState' = "Absent"
    /\ UNCHANGED tServer

ServerStops ==
    /\ TmuxEnv
    /\ tServer
    /\ tServer' = FALSE
    /\ tState' = "Absent"

ServerStarts ==
    /\ TmuxEnv
    /\ ~tServer
    /\ tServer' = TRUE
    /\ UNCHANGED tState

\* ---- session queries
Query(op) ==
    /\ TmuxStep
    /\ epc = "idle"
    /\ qResult' =
         [op |-> op, state |-> SessionStateNow, server |-> tServer,
          err |-> IF op = "HasSession" THEN HasSession.err
                  ELSE IF op = "ListSessions" THEN TmuxListSessions.err
                  ELSE Nil,
          value |-> IF op = "HasSession" THEN HasSession.has
                    ELSE IF op = "ListSessions" THEN TmuxListSessions.names # {}
                    ELSE IF op = "IsAgentRunning" THEN IsAgentRunning
                    ELSE IsClaudeRunning]
    /\ UNCHANGED <<tServer, tState, tKill, epc, eSeen, eResult, eOps, eJust, eOnFresh>>

\* ---- EnsureSessionFresh(name, startDir)
\* Entry: HasSession, then IsAgentRunning on an existing session.
EsfCall ==
    /\ TmuxStep
    /\ epc = "idle"
    /\ eSeen' = SessionStateNow
    /\ eOps' = <<>>
    /\ eOnFresh' = (eJust /\ eResult = Nil /\ eOps # <<>> /\ eOps[Len(eOps)] = "create")
    /\ LET h == HasSession
           b == EsfBranch(h.has, IsAgentRunning)
       IN  IF h.err # Nil
           THEN /\ eResult' = h.err /\ epc' = "idle" /\ eJust' = TRUE
           ELSE IF b = "return"
           THEN /\ eResult' = Nil /\ epc' = "idle" /\ eJust' = TRUE
           ELSE /\ eResult' = Running /\ epc' = b /\ eJust' = FALSE
    /\ UNCHANGED <<tServer, tState, tKill, qResult>>

\* The kill of the zombie is sent.
EsfKill ==
    /\ epc = "kill"
    /\ LET err == RunTmux("kill-session")
       IN  IF err = Nil
           THEN /\ tKill' = TRUE /\ epc' = "wait" /\ UNCHANGED eResult
           ELSE /\ eResult' = err /\ epc' = "idle" /\ UNCHANGED tKill
    /\ eOps' = Append(eOps, "kill")
    /\ eJust' = (epc' = "idle")
    /\ UNCHANGED <<tServer, tState, eSeen, eOnFresh, qResult, tSteps>>
    /\ UNCHANGED outsideTmux

\* The tmux server destroys the session.
KillTakesEffect ==
    /\ tKill
    /\ tKill' = FALSE
    /\ tState' = "Absent"
    /\ UNCHANGED <<tServer, epc, eSeen, eResult, eOps, eJust, eOnFresh, qResult, tSteps>>
    /\ UNCHANGED outsideTmux

\* new-session, and the return of EnsureSessionFresh.
EsfCreate ==
    /\ \/ epc = "create"
       \/ epc = "wait" /\ CreateReady(tKill)
    /\ LET err == RunTmux("new-session")
       IN  /\ eResult' = err
           /\ IF err = Nil
              THEN tServer' = TRUE /\ tState' = FreshSessionState
              ELSE UNCHANGED <<tServer, tState>>
    /\ eOps' = Append(eOps, "create")
    /\ epc' = "idle"
    /\ eJust' = TRUE
    /\ UNCHANGED <<tKill, eSeen, eOnFresh, qResult, tSteps>>
    /\ UNCHANGED outsideTmux

TmuxNext ==
    \/ AgentStart \/ AgentExit \/ SessionEnds \/ ServerStops \/ ServerStarts
    \/ \E op \in {"HasSession", "ListSessions", "IsAgentRunning", "IsClaudeRunning"} :
          Query(op)
    \/ EsfCall \/ EsfKill \/ KillTakesEffect \/ EsfCreate

TmuxSpec == TmuxInit /\ [][TmuxNext]_vars


\* =================================================================
\* The /proc process tree: GetChildren and GetAllDescendants.

MaxProcs == 4     \* pids 1..MaxProcs in the process tree

TreePids == 1..MaxProcs

\* The pid reached from p by following n parent links (0 once the tree is left).
RECURSIVE Climb(_, _, _)
Climb(f, p, n) ==
    IF n = 0 \/ p = 0 THEN p ELSE Climb(f, f[p], n - 1)

\* The kernel's parent links form a forest: every climb leaves the tree.
IsForest(f) == \A p \in TreePids : Climb(f, p, MaxProcs) = 0

\* The pids of S in the order the children file lists them.
RECURSIVE ChildrenFile(_, _)
ChildrenFile(S, order) ==
    IF S = {} THEN <<>>
    ELSE LET c == IF order = "asc"
                  THEN CHOOSE x \in S : \A y \in S : x <= y
                  ELSE CHOOSE x \in S : \A y \in S : x >= y
         IN  <<c>> \o ChildrenFile(S \ {c}, order)

\* GetChildren: nil when the children file cannot be read, else the pids the
\* file lists.
GetChildren(pid) ==
    IF pid = procGone THEN <<>>
    ELSE ChildrenFile({c \in TreePids : procParent[c] = pid}, childrenOrder)

RECURSIVE GetAllDescendants(_), DescLoop(_, _), DescLoop_childFirst(_, _)

\* The loop with the two appends exchanged: the child, then its descendants.
DescLoop_childFirst(children, result) ==
    IF children = <<>> THEN result
    ELSE LET child == Head(children)
         IN  DescLoop_childFirst(Tail(children),
                      Append(result, child) \o GetAllDescendants(child))

\* The loop of GetAllDescendants over the children: the grandchildren of a
\* child are appended first, then the child.
DescLoop(children, result) ==
    IF children = <<>> THEN result
    ELSE LET child == Head(children)
         IN  DescLoop(Tail(children),
                      Append(result \o GetAllDescendants(child), child))

GetAllDescendants(pid) == DescLoop(GetChildren(pid), <<>>)

TreeInit ==
    /\ procParent \in {f \in [TreePids -> 0..MaxProcs] : IsForest(f)}
    /\ childrenOrder \in {"asc", "desc"}
    /\ procGone \in 0..MaxProcs
    /\ descRoot \in TreePids
    /\ descResult = NoDescCall
    /\ ProcParked
    /\ steps = 0
    /\ walkResult = NoWalk
    /\ SessParked
    /\ ErrParked
    /\ TmuxParked
    /\ KillParked
    /\ ScanParked
    /\ TailParked

TreeApply ==
    /\ ~descResult.done
    /\ descResult' = [done |-> TRUE, list |-> GetAllDescendants(descRoot)]
    /\ UNCHANGED <<procParent, childrenOrder, procGone, descRoot,
                   procVars, walkVars, sessVars, errVars, tmuxVars, killVars,
                   scanVars, tailVars>>

TreeNext == TreeApply

TreeSpec == TreeInit /\ [][TreeNext]_vars


\* =================================================================
\* Signals: syscall.Kill, Exists and SignalAll over the kernel's processes.

KillProcs == 3    \* pids 1..KillProcs may be processes of a signalling call
MaxPidList == 2   \* longest pid list handed to SignalAll by a broadcast

KillPids == 1..KillProcs

\* syscall.Kill(pid, sig): ESRCH for a pid that does not exist, EPERM for a
\* process the caller may not signal, nil otherwise.
syscall_Kill(pid) ==
    IF pid \notin procAlive THEN "ESRCH"
    ELSE IF pid = procForeign THEN "EPERM"
    ELSE "nil"

\* Exists: syscall.Kill(pid, 0) == nil.
Exists(pid) == syscall_Kill(pid) = "nil"

\* The loop of SignalAll taken from the far end of the list.
RangePid_reversed(pids, idx) == pids[Len(pids) - idx]

\* `for _, pid := range pids`: the entry the loop handles after idx entries.
RangePid(pids, idx) == pids[idx + 1]

\* The count with every attempt counted.
SentAfter_always(n, err) == n + 1

\* `if err == nil { sent++ }`.
SentAfter(n, err) == IF err = "nil" THEN n + 1 ELSE n

\* The pid lists a broadcast is called with.
PidLists == UNION {[1..n -> KillPids] : n \in 0..MaxPidList}

\* A process table: the processes that exist with their parent links; a pid
\* that does not exist is nobody's parent and nobody's child.
KillInit ==
    /\ procParent \in {f \in [TreePids -> 0..KillProcs] :
                          IsForest(f) /\ \A p \in TreePids \ KillPids : f[p] = 0}
    /\ procAlive \in {S \in SUBSET KillPids :
                          \A p \in KillPids \ S :
                              procParent[p] = 0 /\ \A c \in TreePids : procParent[c] # p}
    /\ procForeign \in 0..KillProcs
    /\ childrenOrder \in {"asc", "desc"}
    /\ procGone = 0 /\ descRoot = 0 /\ descResult = NoDescCall
    /\ sigCall = "none" /\ sigPids = <<>> /\ sigIdx = 0 /\ sent = 0
    /\ sigTrace = <<>> /\ sigReturn = NoReturn
    /\ ProcParked
    /\ steps = 0
    /\ walkResult = NoWalk
    /\ SessParked
    /\ ErrParked
    /\ TmuxParked
    /\ ScanParked
    /\ TailParked

outsideKill == <<procVars, walkVars, sessVars, errVars, tmuxVars, scanVars, tailVars>>

\* A subtree kill starts: SignalAll(GetAllDescendants(root), sig).
KillTreeBegin ==
    /\ sigCall = "none"
    /\ \E root \in procAlive :
        /\ descRoot' = root
        /\ descResult' = [done |-> TRUE, list |-> GetAllDescendants(root),
                          tree |-> procParent]
        /\ sigPids' = GetAllDescendants(root)
    /\ sigCall' = "subtree"
    /\ UNCHANGED <<procParent, childrenOrder, procGone, procAlive, procForeign,
                   sigIdx, sent, sigTrace, sigReturn, outsideKill>>

\* A broadcast starts: SignalAll(pids, sig) over unrelated processes.
BroadcastBegin ==
    /\ sigCall = "none"
    /\ \A p \in TreePids : procParent[p] = 0
    /\ childrenOrder = "asc"
    /\ sigPids' \in PidLists
    /\ sigCall' = "broadcast"
    /\ UNCHANGED <<treeVars, procAlive, procForeign, sigIdx, sent, sigTrace,
                   sigReturn, outsideKill>>

\* One iteration of SignalAll's loop.
SignalStep ==
    /\ sigCall \in {"subtree", "broadcast"}
    /\ ~sigReturn.done
    /\ sigIdx < Len(sigPids)
    /\ LET pid == RangePid(sigPids, sigIdx)
           err == syscall_Kill(pid)
       IN  /\ sent' = SentAfter(sent, err)
           /\ sigTrace' = Append(sigTrace, [pid |-> pid, err |-> err,
                                            existed |-> pid \in procAlive])
    /\ sigIdx' = sigIdx + 1
    /\ UNCHANGED <<treeVars, procAlive, procForeign, sigCall, sigPids, sigReturn,
                   outsideKill>>

\* SignalAll returns sent.
SignalReturn ==
    /\ sigCall \in {"subtree", "broadcast"}
    /\ ~sigReturn.done
    /\ sigIdx = Len(sigPids)
    /\ sigReturn' = [done |-> TRUE, value |-> sent]
    /\ UNCHANGED <<treeVars, procAlive, procForeign, sigCall, sigPids, sigIdx, sent,
                   sigTrace, outsideKill>>

\* Exists(pid) is called.
ExistsCall ==
    /\ sigCall = "none"
    /\ \A p \in TreePids : procParent[p] = 0
    /\ childrenOrder = "asc"
    /\ \E pid \in KillPids :
        /\ sigPids' = <<pid>>
        /\ sigTrace' = <<[pid |-> pid, err |-> syscall_Kill(pid),
                          existed |-> pid \in procAlive]>>
        /\ sigReturn' = [done |-> TRUE, value |-> Exists(pid)]
    /\ sigCall' = "exists"
    /\ UNCHANGED <<treeVars, procAlive, procForeign, sigIdx, sent, outsideKill>>

\* A process exits while SignalAll runs; its children are reparented out of
\* the subtree.
TargetExit ==
    /\ sigCall \in {"subtree", "broadcast"}
    /\ ~sigReturn.done
    /\ \E p \in procAlive :
        /\ procAlive' = procAlive \ {p}
        /\ procParent' = [c \in TreePids |->
                             IF c = p \/ procParent[c] = p THEN 0 ELSE procParent[c]]
    /\ UNCHANGED <<childrenOrder, procGone, descRoot, descResult, procForeign,
                   sigCall, sigPids, sigIdx, sent, sigTrace, sigReturn, outsideKill>>

KillNext ==
    \/ KillTreeBegin
    \/ BroadcastBegin
    \/ SignalStep
    \/ SignalReturn
    \/ ExistsCall
    \/ TargetExit

KillSpec == KillInit /\ [][KillNext]_vars


\* =================================================================
\* Pattern scans over /proc: getCmdline, CountByPattern, FindByPattern.

MaxEntries == 5   \* entries of /proc

NUL == "\\0"

\* The entries /proc may hold: a plain file, a directory that is not a
\* process, a process whose cmdline cannot be read, and processes with their
\* argument vectors (an argument is a sequence of tokens).
ProcEntries ==
    { [isDir |-> FALSE, numeric |-> FALSE, readable |-> FALSE, argv |-> <<>>],
      [isDir |-> TRUE,  numeric |-> FALSE, readable |-> FALSE, argv |-> <<>>],
      [isDir |-> TRUE,  numeric |-> TRUE,  readable |-> FALSE, argv |-> <<>>],
      [isDir |-> TRUE,  numeric |-> TRUE,  readable |-> TRUE,
       argv |-> << <<"bd">>, <<"daemon">> >>],
      [isDir |-> TRUE,  numeric |-> TRUE,  readable |-> TRUE,
       argv |-> << <<"daemon">>, <<"bd">> >>],
      [isDir |-> TRUE,  numeric |-> TRUE,  readable |-> TRUE,
       argv |-> << <<"bd">>, <<"activity">> >>] }

\* The patterns the scans are called with.
ScanPatterns ==
    { <<>>, <<"bd">>, <<"bd", " ", "daemon">>, <<"bd", ".", "daemon">>,
      <<"daemon", " ">> }

\* The content of /proc/<pid>/cmdline: every argument followed by a NUL byte.
RECURSIVE CmdlineFile(_)
CmdlineFile(argv) ==
    IF argv = <<>> THEN <<>> ELSE Head(argv) \o <<NUL>> \o CmdlineFile(Tail(argv))

\* strings.ReplaceAll(s, old, new) for one-byte old and new.
ReplaceAll(s, old, new) == [i \in DOMAIN s |-> IF s[i] = old THEN new ELSE s[i]]

\* getCmdline without the replacement of the NUL bytes.
getCmdline_raw(entry) ==
    IF ~entry.readable THEN <<>> ELSE CmdlineFile(entry.argv)

\* getCmdline: "" when the file cannot be read, else its content with the
\* NUL bytes replaced by spaces.
getCmdline(entry) ==
    IF ~entry.readable THEN <<>>
    ELSE ReplaceAll(CmdlineFile(entry.argv), NUL, " ")

\* The loop of CountByPattern from entry i on.
RECURSIVE CountLoop(_, _, _)
CountLoop(pattern, i, count) ==
    IF i > Len(procDir) THEN count
    ELSE LET entry == procDir[i]
         IN  IF ~entry.isDir THEN CountLoop(pattern, i + 1, count)
             ELSE IF ~entry.numeric THEN CountLoop(pattern, i + 1, count)
             ELSE IF Contains(getCmdline(entry), pattern)
                  THEN CountLoop(pattern, i + 1, count + 1)
                  ELSE CountLoop(pattern, i + 1, count)

CountByPattern(pattern) ==
    IF procDirErr THEN 0 ELSE CountLoop(pattern, 1, 0)

\* The loop of FindByPattern from entry i on; the pid of an entry is its name,
\* here its place in the directory.
RECURSIVE FindLoop(_, _, _)
FindLoop(pattern, i, pids) ==
    IF i > Len(procDir) THEN pids
    ELSE LET entry == procDir[i]
         IN  IF ~entry.isDir THEN FindLoop(pattern, i + 1, pids)
             ELSE IF ~entry.numeric THEN FindLoop(pattern, i + 1, pids)
             ELSE IF Contains(getCmdline(entry), pattern)
                  THEN FindLoop(pattern, i + 1, Append(pids, i))
                  ELSE FindLoop(pattern, i + 1, pids)

FindByPattern(pattern) ==
    IF procDirErr THEN <<>> ELSE FindLoop(pattern, 1, <<>>)

ScanInit ==
    /\ procDirErr \in BOOLEAN
    /\ procDir \in (IF procDirErr THEN {<<>>}
                    ELSE UNION {[1..n -> ProcEntries] : n \in 0..MaxEntries})
    /\ scanPattern \in ScanPatterns
    /\ scanResult = NoScan
    /\ ProcParked
    /\ steps = 0
    /\ walkResult = NoWalk
    /\ SessParked
    /\ ErrParked
    /\ TmuxParked
    /\ TreeParked
    /\ KillParked
    /\ TailParked

\* CountByPattern and FindByPattern are called on the same table.
ScanApply ==
    /\ ~scanResult.done
    /\ scanResult' = [done |-> TRUE, count |-> CountByPattern(scanPattern),
                      found |-> FindByPattern(scanPattern)]
    /\ UNCHANGED <<procDir, procDirErr, scanPattern, procVars, walkVars, sessVars,
                   errVars, tmuxVars, treeVars, killVars, tailVars>>

ScanNext == ScanApply

ScanSpec == ScanInit /\ [][ScanNext]_vars


\* =================================================================
\* Agent detection: GetComm, GetChildrenWithComm, HasDescendantMatching.

\* The command names a process may carry; "" is an unreadable or empty comm.
Comms == {"", "bash", "node"}

\* The candidate names the descendant search is called with.
AgentNames == {"node", "claude"}

\* GetComm: the trimmed content of /proc/<pid>/comm, "" when it cannot be read.
GetComm(pid) == procComm[pid]

\* GetChildrenWithComm: the direct children whose comm is not "".
RECURSIVE WithComm(_)
WithComm(children) ==
    IF children = <<>> THEN <<>>
    ELSE LET cpid == Head(children)
             comm == GetComm(cpid)
         IN  IF comm # ""
             THEN <<[PID |-> cpid, Comm |-> comm]>> \o WithComm(Tail(children))
             ELSE WithComm(Tail(children))

GetChildrenWithComm(pid) == WithComm(GetChildren(pid))

\* HasDescendantMatching with its visited map: found is what the call returns,
\* visited the map after the call, expanded the pids whose children the call
\* has read, in the order it read them.
RECURSIVE HasDescendantMatching(_, _, _), MatchLoop(_, _, _), MatchLoop_directOnly(_, _, _)

\* The loop without the recursive call: only direct children are looked at.
MatchLoop_directOnly(children, names, visited) ==
    IF children = <<>> THEN [found |-> FALSE, visited |-> visited, expanded |-> <<>>]
    ELSE IF Head(children).Comm \in names
         THEN [found |-> TRUE, visited |-> visited, expanded |-> <<>>]
         ELSE MatchLoop_directOnly(Tail(children), names, visited)

\* The loop of HasDescendantMatching over the children: a child that matches
\* ends the search, otherwise its own descendants are searched.
MatchLoop(children, names, visited) ==
    IF children = <<>> THEN [found |-> FALSE, visited |-> visited, expanded |-> <<>>]
    ELSE LET child == Head(children)
         IN  IF child.Comm \in names
             THEN [found |-> TRUE, visited |-> visited, expanded |-> <<>>]
             ELSE LET r == HasDescendantMatching(child.PID, names, visited)
                  IN  IF r.found THEN r
                      ELSE LET rest == MatchLoop(Tail(children), names, r.visited)
                           IN  [rest EXCEPT !.expanded = r.expanded \o @]

\* Variant: a pid that is already in the visited map counts as a match.
HasDescendantMatching_visitedMatches(pid, names, visited) ==
    IF pid \in visited THEN [found |-> TRUE, visited |-> visited, expanded |-> <<>>]
    ELSE LET r == MatchLoop(GetChildrenWithComm(pid), names, visited \cup {pid})
         IN  [r EXCEPT !.expanded = <<pid>> \o @]

HasDescendantMatching(pid, names, visited) ==
    IF pid \in visited THEN [found |-> FALSE, visited |-> visited, expanded |-> <<>>]
    ELSE LET r == MatchLoop(GetChildrenWithComm(pid), names, visited \cup {pid})
         IN  [r EXCEPT !.expanded = <<pid>> \o @]

MatchInit ==
    /\ procParent \in {f \in [TreePids -> 0..KillProcs] :
                          IsForest(f) /\ \A p \in TreePids \ KillPids : f[p] = 0}
    /\ procComm \in [TreePids -> Comms]
    /\ \A p \in TreePids \ KillPids : procComm[p] = ""
    /\ childrenOrder \in {"asc", "desc"}
    /\ procGone = 0
    /\ descRoot \in KillPids
    /\ descResult = NoDescCall
    /\ matchResult = NoMatch
    /\ ProcParked
    /\ steps = 0
    /\ walkResult = NoWalk
    /\ SessParked
    /\ ErrParked
    /\ TmuxParked
    /\ KillParked
    /\ ScanParked
    /\ GramParked
    /\ BdParked

\* The descendant check on a pane pid, with a fresh visited map.
MatchApply ==
    /\ ~matchResult.done
    /\ matchResult' = [done |-> TRUE,
                       found |-> HasDescendantMatching(descRoot, AgentNames, {}).found]
    /\ UNCHANGED <<procComm, procVars, walkVars, sessVars, errVars, tmuxVars, treeVars,
                   killVars, scanVars, gramVars, bdVars>>

MatchNext == MatchApply

MatchSpec == MatchInit /\ [][MatchNext]_vars


\* =================================================================
\* The session-name grammar: gt-<rig>-witness, gt-<rig>-refinery,
\* gt-<rig>-crew-<name>, gt-<rig>-<name>.

MaxNameLen == 3   \* tokens in a rig name or an agent name

Roles == {"witness", "refinery", "crew", "polecat"}

\* Rig names and agent names: sequences of word tokens and separators.
NameTokens == {"acme", "witness", "crew", Sep}
Names ==
    {s \in UNION {[1..n -> NameTokens] : n \in 1..MaxNameLen} :
        /\ s[1] # Sep /\ s[Len(s)] # Sep
        /\ \A i \in 1..(Len(s) - 1) : ~(s[i] = Sep /\ s[i + 1] = Sep)}

\* The session name of an agent, by the grammar.
SessionNameOf(rig, role, name) ==
    <<"gt", Sep>> \o rig \o <<Sep>> \o
        (CASE role = "witness"  -> <<"witness">>
           [] role = "refinery" -> <<"refinery">>
           [] role = "crew"     -> <<"crew", Sep>> \o name
           [] OTHER             -> name)

\* The decoder that splits at the first separator after the rig whatever the role.
categorizeSession_noRoles(session) ==
    LET parts == SplitN3(session)
    IN  IF ~HasGtPrefix(session) \/ Len(parts) < 3 THEN NoAgent
        ELSE [rig |-> parts[2], role |-> "polecat", name |-> parts[3]]

\* categorizeSession: the identity a session name decodes to; the rig is the
\* segment after "gt-", the rest names the role. gt-witness-<rig> is the
\* legacy form of a witness session and is tried after the canonical forms.
categorizeSession(session) ==
    LET parts == SplitN3(session)
    IN  IF ~HasGtPrefix(session) \/ Len(parts) < 3 THEN NoAgent
        ELSE LET rig == parts[2]
                 rest == parts[3]
             IN  IF rest = <<"witness">>
                    THEN [rig |-> rig, role |-> "witness", name |-> <<>>]
                 ELSE IF rest = <<"refinery">>
                    THEN [rig |-> rig, role |-> "refinery", name |-> <<>>]
                 ELSE IF Len(rest) >= 2 /\ rest[1] = "crew" /\ rest[2] = Sep
                    THEN [rig |-> rig, role |-> "crew",
                          name |-> SubSeq(rest, 3, Len(rest))]
                 ELSE IF rig = <<"witness">>
                    THEN [rig |-> rest, role |-> "witness", name |-> <<>>]
                 ELSE [rig |-> rig, role |-> "polecat", name |-> rest]

GramInit ==
    /\ \E rig \in Names, role \in Roles, name \in Names :
          agentId = [rig |-> rig, role |-> role,
                     name |-> IF role \in {"witness", "refinery"} THEN <<>> ELSE name]
    /\ sessionId = NoSession
    /\ ProcParked
    /\ steps = 0
    /\ walkResult = NoWalk
    /\ SessParked
    /\ ErrParked
    /\ TmuxParked
    /\ TreeParked
    /\ KillParked
    /\ ScanParked
    /\ MatchParked
    /\ BdParked

\* The identity is encoded to a session name and the name is decoded.
GramApply ==
    /\ ~sessionId.done
    /\ LET n == SessionNameOf(agentId.rig, agentId.role, agentId.name)
       IN  sessionId' = [done |-> TRUE, name |-> n, agent |-> categorizeSession(n)]
    /\ UNCHANGED <<agentId, procVars, walkVars, sessVars, errVars, tmuxVars, treeVars,
                   killVars, scanVars, matchVars, bdVars>>

GramNext == GramApply

GramSpec == GramInit /\ [][GramNext]_vars


\* =================================================================
\* bd daemon shutdown: StopAllBdProcesses, stopBdDaemons,
\* stopBdActivityProcesses.

MaxBd == 2        \* processes of one class that exist at the same time

\* CountBdDaemons / CountBdActivityProcesses: proc.CountByPattern on the
\* class's pattern.
CountBd(class) == bdProcs[class]

\* killed without the clamp.
KilledCount_unclamped(before, final) == before - final

\* killed := before - final, set to 0 when negative.
KilledCount(before, final) ==
    IF before - final < 0 THEN 0 ELSE before - final

\* The error whenever the two killed counts are not both positive.
StopError_onNoKill(daemonsKilled, daemonsRemaining, activityKilled, activityRemaining) ==
    IF daemonsKilled = 0 /\ daemonsRemaining > 0 THEN "bd daemon shutdown incomplete"
    ELSE IF activityKilled = 0 /\ activityRemaining > 0 THEN "bd activity shutdown incomplete"
    ELSE "nil"

\* The error StopAllBdProcesses returns after the two stop functions.
StopError(daemonsKilled, daemonsRemaining, activityKilled, activityRemaining) ==
    IF daemonsRemaining > 0 THEN "bd daemon shutdown incomplete"
    ELSE IF activityRemaining > 0 THEN "bd activity shutdown incomplete"
    ELSE "nil"

\* Where the call goes after the stop function of a class.
AfterStop(class) ==
    IF class = "daemon" THEN [at |-> "before", class |-> "activity"]
    ELSE [at |-> "return", class |-> "none"]

BdInit ==
    /\ bdInstalled \in BOOLEAN
    /\ bdProcs \in [BdClasses -> 0..MaxBd]
    /\ bdArgs \in [dryRun : BOOLEAN, force : BOOLEAN]
    /\ bdpc = [at |-> "lookpath", class |-> "none"]
    /\ bdLocals = [c \in BdClasses |-> NoStop]
    /\ bdCounts = [c \in BdClasses |-> 0]
    /\ bdReturn = NoBdReturn
    /\ bdTrace = <<>>
    /\ ProcParked
    /\ steps = 0
    /\ walkResult = NoWalk
    /\ SessParked
    /\ ErrParked
    /\ TmuxParked
    /\ TreeParked
    /\ KillParked
    /\ ScanParked
    /\ MatchParked
    /\ GramParked

outsideBd == <<procVars, walkVars, sessVars, errVars, tmuxVars, treeVars, killVars,
               scanVars, matchVars, gramVars>>

\* exec.LookPath("bd"): without bd the call returns 0, 0, nil at once.
BdLookPath ==
    /\ bdpc.at = "lookpath"
    /\ IF bdInstalled
       THEN /\ bdpc' = [at |-> "countBefore", class |-> "daemon"]
            /\ UNCHANGED bdReturn
       ELSE /\ bdpc' = [at |-> "done", class |-> "none"]
            /\ bdReturn' = [done |-> TRUE, daemonsKilled |-> 0, activityKilled |-> 0,
                            err |-> "nil"]
    /\ UNCHANGED <<bdInstalled, bdProcs, bdArgs, bdLocals, bdCounts, bdTrace, outsideBd>>

\* daemonsBefore := CountBdDaemons(); activityBefore := CountBdActivityProcesses();
\* a dry run returns the two counts.
BdCountBefore ==
    /\ bdpc.at = "countBefore"
    /\ bdCounts' = [bdCounts EXCEPT ![bdpc.class] = CountBd(bdpc.class)]
    /\ IF bdpc.class = "daemon"
       THEN /\ bdpc' = [at |-> "countBefore", class |-> "activity"]
            /\ UNCHANGED bdReturn
       ELSE IF bdArgs.dryRun
       THEN /\ bdpc' = [at |-> "done", class |-> "none"]
            /\ bdReturn' = [done |-> TRUE, daemonsKilled |-> bdCounts.daemon,
                            activityKilled |-> CountBd("activity"), err |-> "nil"]
       ELSE /\ bdpc' = [at |-> "before", class |-> "daemon"]
            /\ UNCHANGED bdReturn
    /\ UNCHANGED <<bdInstalled, bdProcs, bdArgs, bdLocals, bdTrace, outsideBd>>

\* stopBd*: before := Count(); nothing to do when it is 0.
BdStopBefore ==
    /\ bdpc.at = "before"
    /\ LET before == CountBd(bdpc.class)
       IN  /\ bdLocals' = [bdLocals EXCEPT ![bdpc.class] =
                              [before |-> before, killed |-> 0, remaining |-> 0]]
           /\ bdpc' = IF before = 0 THEN AfterStop(bdpc.class)
                      ELSE [at |-> "signal", class |-> bdpc.class]
    /\ UNCHANGED <<bdInstalled, bdProcs, bdArgs, bdCounts, bdReturn, bdTrace, outsideBd>>

\* The condition of the second SignalAll, taken whatever the re-count says.
StillRunning_always(remaining) == TRUE

\* if remaining := Count(); remaining > 0
StillRunning(remaining) == remaining > 0

\* stopBd*: FindByPattern and the first SignalAll: SIGKILL when forced,
\* SIGTERM followed by the graceful wait otherwise.  An entry of the trace
\* keeps the signal, which FindByPattern call gave the pids, and the re-count
\* that led to the signal (0 for the first one).
BdSignalFirst ==
    /\ bdpc.at = "signal"
    /\ bdTrace' = Append(bdTrace, [class |-> bdpc.class,
                                   sig |-> IF bdArgs.force THEN "SIGKILL" ELSE "SIGTERM",
                                   scan |-> "first", recount |-> 0])
    /\ bdpc' = [at |-> IF bdArgs.force THEN "final" ELSE "recount", class |-> bdpc.class]
    /\ UNCHANGED <<bdInstalled, bdProcs, bdArgs, bdLocals, bdCounts, bdReturn, outsideBd>>

\* stopBd*: after the graceful wait, remaining := Count(); the second
\* SignalAll is skipped when nothing is left.
BdRecount ==
    /\ bdpc.at = "recount"
    /\ LET remaining == CountBd(bdpc.class)
       IN  bdpc' = IF StillRunning(remaining)
                   THEN [at |-> "rescan", class |-> bdpc.class, remaining |-> remaining]
                   ELSE [at |-> "final", class |-> bdpc.class]
    /\ UNCHANGED <<bdInstalled, bdProcs, bdArgs, bdLocals, bdCounts, bdReturn, bdTrace,
                   outsideBd>>

\* stopBd*: pids = FindByPattern again, and SIGKILL to what it found.
BdRescan ==
    /\ bdpc.at = "rescan"
    /\ bdTrace' = Append(bdTrace, [class |-> bdpc.class, sig |-> "SIGKILL",
                                   scan |-> "rescan", recount |-> bdpc.remaining])
    /\ bdpc' = [at |-> "final", class |-> bdpc.class]
    /\ UNCHANGED <<bdInstalled, bdProcs, bdArgs, bdLocals, bdCounts, bdReturn, outsideBd>>

\* stopBd*: after the last wait, final := Count(); killed := before - final,
\* clamped; return killed, final.
BdFinal ==
    /\ bdpc.at = "final"
    /\ LET final == CountBd(bdpc.class)
       IN  bdLocals' = [bdLocals EXCEPT ![bdpc.class] =
                           [before |-> bdLocals[bdpc.class].before,
                            killed |-> KilledCount(bdLocals[bdpc.class].before, final),
                            remaining |-> final]]
    /\ bdpc' = AfterStop(bdpc.class)
    /\ UNCHANGED <<bdInstalled, bdProcs, bdArgs, bdCounts, bdReturn, bdTrace, outsideBd>>

\* StopAllBdProcesses returns the killed counts and the error.
BdReturnResult ==
    /\ bdpc.at = "return"
    /\ bdReturn' = [done |-> TRUE,
                    daemonsKilled |-> bdLocals.daemon.killed,
                    activityKilled |-> bdLocals.activity.killed,
                    err |-> StopError(bdLocals.daemon.killed, bdLocals.daemon.remaining,
                                      bdLocals.activity.killed,
                                      bdLocals.activity.remaining)]
    /\ bdpc' = [at |-> "done", class |-> "none"]
    /\ UNCHANGED <<bdInstalled, bdProcs, bdArgs, bdLocals, bdCounts, bdTrace, outsideBd>>

\* A process of a class exits, on a signal or by itself, while the call runs.
BdExit ==
    /\ bdpc.at \notin {"idle", "done"}
    /\ \E c \in BdClasses :
        /\ bdProcs[c] > 0
        /\ bdProcs' = [bdProcs EXCEPT ![c] = @ - 1]
    /\ UNCHANGED <<bdInstalled, bdArgs, bdpc, bdLocals, bdCounts, bdReturn, bdTrace,
                   outsideBd>>

\* A new process of a class is spawned while the call runs.
BdSpawn ==
    /\ bdpc.at \notin {"idle", "done"}
    /\ \E c \in BdClasses :
        /\ bdProcs[c] < MaxBd
        /\ bdProcs' = [bdProcs EXCEPT ![c] = @ + 1]
    /\ UNCHANGED <<bdInstalled, bdArgs, bdpc, bdLocals, bdCounts, bdReturn, bdTrace,
                   outsideBd>>

BdNext ==
    \/ BdLookPath
    \/ BdCountBefore
    \/ BdStopBefore
    \/ BdSignalFirst
    \/ BdRecount
    \/ BdRescan
    \/ BdFinal
    \/ BdReturnResult
    \/ BdExit
    \/ BdSpawn

BdSpec == BdInit /\ [][BdNext]_vars


\* ------------------------------------------------------------ corrupted child relation
\* GetAllDescendants as the Go runtime executes it.  Every call takes a frame
\* of the goroutine stack; the runtime aborts the program ("goroutine stack
\* exceeds limit") when a call finds no frame left.
StackLimit == 5   \* frames the goroutine stack holds

RECURSIVE GetAllDescendantsOnStack(_, _), DescLoopOnStack(_, _, _)

\* The loop of GetAllDescendants over the children, free frames left for the
\* calls it makes.
DescLoopOnStack(children, result, free) ==
    IF children = <<>> THEN [fatal |-> FALSE, list |-> result]
    ELSE LET child == Head(children)
             r == GetAllDescendantsOnStack(child, free)
         IN  IF r.fatal THEN r
             ELSE DescLoopOnStack(Tail(children), Append(result \o r.list, child), free)

GetAllDescendantsOnStack(pid, free) ==
    IF free = 0 THEN [fatal |-> TRUE, list |-> <<>>]
    ELSE DescLoopOnStack(GetChildren(pid), <<>>, free - 1)

\* Any child relation on the pids 1..KillProcs, the cyclic ones included: the
\* children files are read one at a time, nothing makes them agree.
CycleInit ==
    /\ procParent \in {f \in [TreePids -> 0..KillProcs] :
                          \A p \in TreePids \ KillPids : f[p] = 0}
    /\ childrenOrder \in {"asc", "desc"}
    /\ procGone \in 0..KillProcs
    /\ descRoot \in KillPids
    /\ descResult = NoDescCall
    /\ ProcParked
    /\ steps = 0
    /\ walkResult = NoWalk
    /\ SessParked
    /\ ErrParked
    /\ TmuxParked
    /\ KillParked
    /\ ScanParked
    /\ TailParked

CycleApply ==
    /\ ~descResult.done
    /\ LET r == GetAllDescendantsOnStack(descRoot, StackLimit)
       IN  descResult' = [done |-> TRUE, list |-> r.list, fatal |-> r.fatal]
    /\ UNCHANGED <<procParent, childrenOrder, procGone, descRoot,
                   procVars, walkVars, sessVars, errVars, tmuxVars, killVars,
                   scanVars, tailVars>>

CycleNext == CycleApply

CycleSpec == CycleInit /\ [][CycleNext]_vars


\* ---- HasDescendantMatching on any child relation
\* Any child relation on the pids 1..KillProcs, the cyclic ones included,
\* every process with a comm; the pid the search is called on may be gone.
GuardInit ==
    /\ procParent \in {f \in [TreePids -> 0..KillProcs] :
                          \A p \in TreePids \ KillPids : f[p] = 0}
    /\ procComm \in {c \in [TreePids -> Comms] :
                        /\ \A p \in KillPids : c[p] # ""
                        /\ \A p \in TreePids \ KillPids : c[p] = ""}
    /\ childrenOrder = "asc"
    /\ descRoot \in KillPids
    /\ procGone \in {0, descRoot}
    /\ descResult = NoDescCall
    /\ matchResult = NoMatch
    /\ ProcParked
    /\ steps = 0
    /\ walkResult = NoWalk
    /\ SessParked
    /\ ErrParked
    /\ TmuxParked
    /\ KillParked
    /\ ScanParked
    /\ GramParked
    /\ BdParked

\* A call of HasDescendantMatching with the visited map the caller hands in:
\* empty, or holding one pid already.
GuardApply(visited) ==
    /\ ~matchResult.done
    /\ LET r == HasDescendantMatching(descRoot, AgentNames, visited)
       IN  matchResult' = [done |-> TRUE, found |-> r.found, before |-> visited,
                           visited |-> r.visited, expanded |-> r.expanded]
    /\ UNCHANGED <<procComm, procVars, walkVars, sessVars, errVars, tmuxVars, treeVars,
                   killVars, scanVars, gramVars, bdVars>>

GuardNext == \E visited \in {{}} \cup {{p} : p \in KillPids} : GuardApply(visited)

GuardSpec == GuardInit /\ [][GuardNext]_vars


\* ------------------------------------------------ a pane that runs the agent
\* The process check when a pane was opened with the runtime as its command:
\* the pane pid is the runtime process itself, a child of the tmux server.
PaneInit ==
    /\ alive = Pids
    /\ servers = {2}
    /\ parent \in {f \in [Pids -> 0..NumPids] :
                     /\ f[1] = 0 /\ f[2] = 1
                     /\ \A p \in ShellPids : f[p] = 2
                     /\ \A p \in RuntimePids : f[p] \in {InitPid, 2} \cup ShellPids}
    /\ panes \in {S \in SUBSET (ShellPids \cup RuntimePids) :
                     /\ S \cap RuntimePids # {}
                     /\ \A p \in S : parent[p] = 2}
    /\ orphanProcesses = <<>>
    /\ pc = "idle" /\ fixIdx = 0 /\ panePIDSet = {}
    /\ killed = 0 /\ skipped = 0 /\ lastErr = FALSE /\ dryRun = FALSE
    /\ dryReport = <<>> /\ runStatus = "none" /\ fixResult = "none"
    /\ hRunErr = {}
    /\ sigLog = <<>>
    /\ hHandled = <<>> /\ hBegin = [panes |-> {}, servers |-> {}, attached |-> {},
                                    paneListed |-> FALSE, serversListed |-> FALSE]
    /\ hQuiet = TRUE /\ hFresh = {}
    /\ steps = 0
    /\ walkResult = NoWalk
    /\ SessParked
    /\ OthersParked

PaneSpec == PaneInit /\ [][Next]_vars

\* ================================================================ claims
SignalsTo(pid) == {i \in 1..Len(sigLog) : sigLog[i][1] = pid}
TermsSent      == {i \in 1..Len(sigLog) : sigLog[i][2] = "TERM"}
HandledWith(outcomes) == {i \in 1..Len(hHandled) : hHandled[i].outcome \in outcomes}
InLoop == pc \in {"verify", "kill"}
FixReturned == pc = "idle" /\ fixResult \in {"nil", "err"}

\* C2: a cached candidate that, when Fix samples the registry, is alive and has
\* a pane or server pid among its first 8 ancestors is counted as skipped and
\* gets neither the signal-0 probe nor SIGTERM. Scope: both listings of that
\* Fix succeed and the environment does not move between the sample and the
\* candidate's turn.
C2_ReattachedIsSkipped ==
    /\ \A i \in 1..Len(hHandled) :
          LET h == hHandled[i]
          IN  (h.pid \in hBegin.attached /\ h.quiet /\ hBegin.serversListed)
              => /\ h.outcome = "skipped"
                 /\ SignalsTo(h.pid) = {}
    /\ (hBegin.serversListed /\ hQuiet)
          => Cardinality(hBegin.attached \cap {hHandled[i].pid : i \in 1..Len(hHandled)})
               <= skipped
    /\ (FixReturned /\ hBegin.serversListed /\ hQuiet)
          => hBegin.attached \subseteq {hHandled[i].pid : i \in HandledWith({"skipped"})}

C2_Witness ==
    /\ FixReturned /\ hBegin.serversListed /\ hQuiet
    /\ skipped >= 1
    /\ \E i \in 1..Len(hHandled) :
          /\ hHandled[i].pid \in hBegin.attached
          /\ hHandled[i].outcome = "skipped"
          /\ hHandled[i].pid \in alive

\* C3 as stated: no SIGTERM is delivered to a process that at that moment has
\* an ancestor in the current pane registry. (Stated for the passes whose
\* listings both succeeded, so that a violation does not rest on a listing
\* failure.)
C3_NeverTermWhileAttached ==
    hBegin.serversListed =>
        \A i \in 1..Len(hHandled) : hHandled[i].outcome = "killed" => ~hHandled[i].attNow

\* C3 amended: SIGTERM goes only to a candidate for which the re-verification
\* of the same pass, over the parent links as they were at that moment, found
\* no pid of the registry sampled at the start of the pass among the first 8
\* ancestors.
C3_TermOnlyIfWalkFoundNoRegistryAncestor ==
    /\ \A i \in 1..Len(hHandled) :
          hHandled[i].outcome \in {"kill", "killed", "killfailed"} => ~hHandled[i].att
    /\ \A j \in TermsSent :
          \E i \in HandledWith({"killed", "killfailed"}) : hHandled[i].pid = sigLog[j][1]

C3_Witness ==
    \E i \in 1..Len(hHandled) :
        /\ hHandled[i].outcome = "killed"
        /\ ~hHandled[i].quiet
        /\ ~hHandled[i].att

C5_NoStaleCandidates == InLoop => CachedPids \subseteq hFresh

\* C6: a dry-run Fix sends no SIGTERM, probes exactly the candidates that pass
\* re-verification, reports exactly the candidates that pass re-verification
\* and the probe (killed counts them), and returns nil once its pane listing
\* has succeeded.
C6_DryRunSparesAndReports ==
    dryRun =>
      /\ TermsSent = {}
      /\ \A i \in 1..Len(hHandled) :
            LET h == hHandled[i]
            IN  /\ h.outcome \in {"skipped", "vanished", "wouldkill"}
                /\ (h.exists /\ ~h.att) <=> h.outcome = "wouldkill"
                /\ (h.exists /\ h.att) => h.outcome = "skipped"
                /\ (h.outcome # "skipped") <=> SignalsTo(h.pid) # {}
      /\ dryReport = [k \in 1..Len(dryReport) |->
                        hHandled[CHOOSE i \in HandledWith({"wouldkill"}) :
                                   Cardinality({j \in HandledWith({"wouldkill"}) : j <= i}) = k].pid]
      /\ Len(dryReport) = Cardinality(HandledWith({"wouldkill"}))
      /\ killed = Len(dryReport)
      /\ (FixReturned /\ hBegin.paneListed) => fixResult = "nil"

C6_Witness ==
    /\ dryRun /\ FixReturned /\ fixResult = "nil"
    /\ Len(dryReport) >= 1
    /\ HandledWith({"skipped"}) # {}

\* ---- isOrphanProcess (WalkSpec)
WalkDone  == walkResult.done
Candidate == orphanProcesses[1].pid

\* The ancestors the claim's walk visits: the k-th ancestor, k <= 8, as long as
\* every ancestor up to it is above pid 1 and has not been met before.
VisitedLevels ==
    {k \in 1..maxAncestryDepth :
        \A j \in 1..k : /\ NthAncestor(Candidate, j) > 1
                        /\ \A i \in 1..(j - 1) :
                              NthAncestor(Candidate, i) # NthAncestor(Candidate, j)}
RegistryHits == {k \in VisitedLevels : NthAncestor(Candidate, k) \in panePIDSet}

\* C8: for a candidate whose own parent lookup succeeds, isOrphanProcess returns
\* true iff none of the ancestors visited (current parent links, at most 8,
\* stopping at pid <= 1 or at a pid met before) is in the registry, and it
\* returns false at the first visited ancestor that is in the registry.
C8_OrphanIffNoVisitedAncestorInRegistry ==
    (WalkDone /\ Candidate \in alive) =>
        /\ walkResult.orphan <=> RegistryHits = {}
        /\ ~walkResult.orphan =>
              LET m == CHOOSE k \in RegistryHits : \A l \in RegistryHits : k <= l
              IN  walkResult.trail = [i \in 1..m |-> NthAncestor(Candidate, i)]

C8_Witness ==
    /\ WalkDone /\ Candidate \in alive
    /\ ~walkResult.orphan
    /\ Len(walkResult.trail) = maxAncestryDepth
    /\ \E k \in 1..WalkMaxPid : NthAncestor(Candidate, maxAncestryDepth + 1) = k

\* The depth-bound case: ChainDepth distinct ancestors, none in the registry.
DeepChainNoRegistry ==
    /\ WalkDone /\ Candidate \in alive
    /\ \A k \in 1..ChainDepth :
          /\ NthAncestor(Candidate, k) > 0
          /\ NthAncestor(Candidate, k) \notin panePIDSet
          /\ \A i \in 1..(k - 1) : NthAncestor(Candidate, i) # NthAncestor(Candidate, k)

\* C9 as stated: orphaned, with no more than 8 GetParentPID reads in total.
C9_AtMostEightLookups ==
    DeepChainNoRegistry => walkResult.orphan /\ walkResult.lookups <= maxAncestryDepth

\* C9 amended: orphaned, with exactly 8 ancestors compared with the registry and
\* 9 GetParentPID reads: one for the candidate and one per ancestor compared;
\* no call ever reads more.
C9_EightAncestorsNineLookups ==
    /\ DeepChainNoRegistry =>
          /\ walkResult.orphan
          /\ Len(walkResult.trail) = maxAncestryDepth
          /\ walkResult.lookups = maxAncestryDepth + 1
    /\ WalkDone => /\ walkResult.lookups <= maxAncestryDepth + 1
                   /\ Len(walkResult.trail) <= maxAncestryDepth

C9_Witness == DeepChainNoRegistry /\ walkResult.lookups = maxAncestryDepth + 1

\* ---- OrphanSessionCheck (SessSpec)
KillsIssued == {sessLog[i].sess : i \in {j \in 1..Len(sessLog) : sessLog[j].op = "kill"}}

\* gt-<rig>-crew-<name>, as the session-name grammar writes it.
CrewName(rig, name) == <<"gt", Sep>> \o rig \o <<Sep, "crew", Sep>> \o name
CrewRigs == {<<"acme">>, <<"ghost">>, <<"my", Sep, "rig">>}
CrewMembers == {<<"joe">>}

\* C1: Fix never issues KillSession for a session named gt-<rig>-crew-<name>,
\* whatever the rig name (known or unknown, with or without '-' in it) and
\* whatever the non-empty member name, even when Run cached it as an orphan.
C1_CrewNeverKilled ==
    \A rig \in CrewRigs : \A name \in CrewMembers :
        CrewName(rig, name) \notin KillsIssued

\* C7: a Fix called with ctx.DryRun = true issues no KillSession.
C7_DryRunKillsNoSession == sessDryRun => KillsIssued = {}

\* C10: a Run that classifies looks at exactly the listed names whose first
\* '-'-separated segment is "gt" and that have a second one; it counts such a
\* name valid iff the name is the mayor or deacon session name or the name has
\* at least three '-'-separated segments and the second one is a valid rig, and
\* it caches every other such name, in listing order, as an orphan.
StartsWithGt(n) == Len(Split(n)) >= 2 /\ Split(n)[1] = <<"gt">>
TownSingleton(n) == n = townSessions[1] \/ n = townSessions[2]
RigSegmentIn(n, rigs) == Len(Split(n)) >= 3 /\ Split(n)[2] \in rigs
ValidAtRun(n) == TownSingleton(n) \/ RigSegmentIn(n, sRun.rigs)
C10_Classification ==
    sRun.classified =>
        /\ orphanSessions =
              SelectSeq(sRun.listed, LAMBDA n : StartsWithGt(n) /\ ~ValidAtRun(n))
        /\ validCount =
              Len(SelectSeq(sRun.listed, LAMBDA n : StartsWithGt(n) /\ ValidAtRun(n)))

\* A Run that saw a crew session of a valid rig (valid, any suffix accepted)
\* next to a two-segment name (orphan).
C10_Witness ==
    /\ sRun.classified
    /\ sRun.listed = << <<"gt", Sep, "acme", Sep, "crew", Sep, "joe">>,
                        <<"gt", Sep, "acme">> >>
    /\ <<"acme">> \in sRun.rigs
    /\ validCount = 1
    /\ orphanSessions = << <<"gt", Sep, "acme">> >>

\* C11: every KillSession(s) that Fix issues comes, in the same pass, after a
\* LogFeed call of type session death for the same session s whose payload
\* names agent "unknown", reason "orphan cleanup" and caller "gt doctor".
KillCalls == {i \in 1..Len(sessLog) : sessLog[i].op = "kill"}
DeathEventFor(j, s) ==
    /\ sessLog[j].op = "event"
    /\ sessLog[j].type = TypeSessionDeath
    /\ sessLog[j].payload = [session |-> s, agent |-> "unknown",
                             reason |-> "orphan cleanup", caller |-> "gt doctor"]
C11_EventBeforeKill ==
    \A i \in KillCalls : \E j \in 1..(i - 1) : DeathEventFor(j, sessLog[i].sess)

\* A pass that killed two sessions.
C11_Witness == Cardinality(KillCalls) >= 2 /\ \A i \in KillCalls : sessLog[i].ok

\* ---- OrphanProcessCheck.Fix, return value (Spec)
\* C12: a Fix that is not a dry run and has reached its loop returns an error
\* iff no SIGTERM succeeded and at least one SIGTERM failed; with at least one
\* successful SIGTERM it returns nil even when another one failed.
C12_ErrIffNoKillAndSomeFailure ==
    (FixReturned /\ ~dryRun /\ hBegin.paneListed) =>
        (fixResult = "err" <=>
            (HandledWith({"killed"}) = {} /\ HandledWith({"killfailed"}) # {}))

\* Partial success: one SIGTERM delivered, one failed, nil returned.
C12_Witness ==
    /\ FixReturned /\ ~dryRun /\ hBegin.paneListed
    /\ HandledWith({"killed"}) # {} /\ HandledWith({"killfailed"}) # {}
    /\ fixResult = "nil"

\* ---- OrphanSessionCheck.Fix, return value (SessSpec)
\* C13: Fix returns an error only if no KillSession succeeded and at least one
\* failed; once one non-crew orphan has been killed it returns nil even if
\* another KillSession failed.
KillsOk == {i \in KillCalls : sessLog[i].ok}
KillsFailed == {i \in KillCalls : ~sessLog[i].ok}
C13_ErrOnlyIfNoKillSucceeded ==
    sessFixResult = "err" => (KillsOk = {} /\ KillsFailed # {})

\* ---- listing failures in Run
\* C14: a Run in which a listing call failed (ListSessions in the session
\* check; ListTmuxServerPIDs, ListPanePIDs or ListRuntimeProcesses in the
\* process check) returns a result with Warning status.
C14_ListingFailureWarns ==
    /\ sRun.listErr => sessRunStatus = "Warning"
    /\ hRunErr # {} => runStatus = "Warning"

\* ---- Tmux.wrapError (ErrSpec)
\* C19: a text in which only NoServer patterns occur ("no server running",
\* "error connecting") gives ErrNoServer, one in which only "duplicate session"
\* occurs gives ErrSessionExists, one in which only SessionNotFound patterns
\* occur ("session not found", "can't find session") gives ErrSessionNotFound,
\* each time the sentinel value itself; a text with none of the patterns gives
\* a generic error that is none of the sentinels.
Occurs(pat) ==
    \E i \in 1..Len(errText) : \E j \in i..Len(errText) : SubSeq(errText, i, j) = pat
SaysNoServer == Occurs(<<"no", "server", "running">>) \/ Occurs(<<"error", "connecting">>)
SaysExists   == Occurs(<<"duplicate", "session">>)
SaysNotFound == Occurs(<<"session", "not", "found">>)
                \/ Occurs(<<"can't", "find", "session">>)
C19_ErrorTaxonomy ==
    errResult.done =>
      /\ (SaysNoServer /\ ~SaysExists /\ ~SaysNotFound) => errResult.err = ErrNoServer
      /\ (SaysExists /\ ~SaysNoServer /\ ~SaysNotFound) => errResult.err = ErrSessionExists
      /\ (SaysNotFound /\ ~SaysNoServer /\ ~SaysExists) => errResult.err = ErrSessionNotFound
      /\ (~SaysNoServer /\ ~SaysExists /\ ~SaysNotFound)
            => /\ errResult.err.kind = "generic"
               /\ errResult.err \notin {ErrNoServer, ErrSessionExists, ErrSessionNotFound}

C19_Witness ==
    /\ errResult.done
    /\ errText = <<"can't", "find", "session">>
    /\ errResult.err = ErrSessionNotFound

\* ---- the session controller (TmuxSpec)
EsfReturned == epc = "idle" /\ eResult \notin {NoResult, Running}

\* C15: a call that finds the session Absent issues exactly a create; one that
\* finds it a Zombie issues a kill and then a create; one that finds an agent
\* running issues nothing and returns success, however many calls came before;
\* right after a successful return the session exists.
C15_StateMachine ==
    EsfReturned =>
      /\ eSeen = "Absent" => eOps = <<"create">>
      /\ eSeen = "Zombie" => eOps = <<"kill", "create">>
      /\ eSeen = "AgentRunning" => (eOps = <<>> /\ eResult = Nil)
      /\ (eResult = Nil /\ eJust) => SessionStateNow # "Absent"

\* Two calls in a row on a session with an agent running.
C15_Witness ==
    /\ EsfReturned /\ eSeen = "AgentRunning" /\ eOps = <<>> /\ eResult = Nil
    /\ tSteps = 2 /\ tState = "AgentRunning" /\ qResult = NoQuery /\ eJust

\* C16: a call made on a session that the previous EnsureSessionFresh call has
\* just created returns success without issuing a kill or a create.
C16_RepeatIsNoOp ==
    (EsfReturned /\ eOnFresh) => (eResult = Nil /\ eOps = <<>>)

\* C16 as amended: such a call finds the session a Zombie (a new session runs a
\* plain shell), kills it, creates it again and returns success, and the
\* session exists right after the return.
C16_RepeatRecreates ==
    (EsfReturned /\ eOnFresh) =>
      /\ eSeen = "Zombie"
      /\ eOps = <<"kill", "create">>
      /\ eResult = Nil
      /\ eJust => SessionStateNow = "Zombie"

\* The third call in a row, as in TestEnsureSessionFresh_IdempotentOnZombie.
C16_Witness ==
    /\ EsfReturned /\ eOnFresh /\ eJust /\ eResult = Nil
    /\ tSteps = 3 /\ qResult = NoQuery

\* C17: a call that finds the session a Zombie never returns ErrSessionExists.
C17_NoAlreadyExistsOnZombie ==
    eSeen = "Zombie" => eResult # ErrSessionExists

\* A zombie was killed, the kill took effect, and the create succeeded.
C17_Witness ==
    /\ EsfReturned /\ eSeen = "Zombie" /\ ~eOnFresh
    /\ eOps = <<"kill", "create">> /\ eResult = Nil /\ eJust

\* C18: for a session that does not exist, with or without a tmux server,
\* HasSession returns (false, nil), ListSessions returns no error and
\* IsAgentRunning / IsClaudeRunning return false.
C18_AbsenceIsNotAnError ==
    (qResult.op # "none" /\ qResult.state = "Absent") =>
      /\ qResult.op = "HasSession" => (~qResult.value /\ qResult.err = Nil)
      /\ qResult.op = "ListSessions" => qResult.err = Nil
      /\ qResult.op \in {"IsAgentRunning", "IsClaudeRunning"} => ~qResult.value

\* HasSession asked while no server was running.
C18_Witness ==
    /\ qResult.op = "HasSession" /\ ~qResult.server
    /\ ~qResult.value /\ qResult.err = Nil

\* ---------------------------------------------------------------- C20
\* a is a proper ancestor of d by the kernel's parent links.
IsTreeAncestor(a, d) ==
    \E n \in 1..MaxProcs : Climb(procParent, d, n) = a

\* C20: in the sequence GetAllDescendants returns, every pid stands after
\* all of its own descendants: whenever a is an ancestor of d and both are
\* listed, d is listed before a.
C20_DeepestFirst ==
    descResult.done =>
        \A i, j \in DOMAIN descResult.list :
            IsTreeAncestor(descResult.list[i], descResult.list[j]) => j < i

\* A parent -> child -> grandchild chain below the root was enumerated as
\* grandchild, child, parent.
C20_Witness ==
    /\ descResult.done
    /\ Len(descResult.list) = 3
    /\ procParent[descResult.list[1]] = descResult.list[2]
    /\ procParent[descResult.list[2]] = descResult.list[3]
    /\ procParent[descResult.list[3]] = descRoot

\* ---------------------------------------------------------------- C21
\* a was a proper ancestor of d when the subtree was enumerated.
WasAncestor(a, d) ==
    \E n \in 1..MaxProcs : Climb(descResult.tree, d, n) = a

\* C21: a subtree kill signals the enumerated pids in list order, so no pid
\* is signalled after one of its ancestors in the subtree: every listed
\* descendant of a pid has had its signal before that pid gets its own, and
\* at the return every listed pid has had one.
C21_ChildrenSignaledFirst ==
    sigCall = "subtree" =>
        /\ \A i, j \in DOMAIN sigTrace :
              WasAncestor(sigTrace[i].pid, sigTrace[j].pid) => j < i
        /\ \A i \in DOMAIN sigTrace : sigTrace[i].pid = sigPids[i]
        /\ sigReturn.done => Len(sigTrace) = Len(sigPids)

\* A chain root -> parent -> child was killed: child first, then parent.
C21_Witness ==
    /\ sigCall = "subtree" /\ sigReturn.done
    /\ Len(sigTrace) = 2
    /\ descResult.tree[sigTrace[1].pid] = sigTrace[2].pid
    /\ descResult.tree[sigTrace[2].pid] = descRoot

\* ---------------------------------------------------------------- C22
\* The entries of the trace that satisfy P, counted.
Delivered == Cardinality({i \in DOMAIN sigTrace : sigTrace[i].err = "nil"})
ExistedCount == Cardinality({i \in DOMAIN sigTrace : sigTrace[i].existed})

\* C22 as stated: SignalAll attempts every listed pid and returns the number
\* of listed pids that existed.
C22_CountsExisting ==
    (sigCall = "broadcast" /\ sigReturn.done) =>
        /\ Len(sigTrace) = Len(sigPids)
        /\ sigReturn.value = ExistedCount

\* C22 as amended: SignalAll attempts every listed pid, whatever the earlier
\* attempts returned, and returns the number of listed pids whose signal was
\* delivered: the pid existed and the caller was allowed to signal it. A pid
\* that is gone adds nothing.
C22_CountsDelivered ==
    (sigCall = "broadcast" /\ sigReturn.done) =>
        /\ Len(sigTrace) = Len(sigPids)
        /\ \A i \in DOMAIN sigTrace : sigTrace[i].pid = sigPids[i]
        /\ sigReturn.value = Delivered
        /\ Delivered <= ExistedCount

\* A list with a gone pid first and an existing one after it returned 1.
C22_Witness ==
    /\ sigCall = "broadcast" /\ sigReturn.done
    /\ Len(sigTrace) = 2
    /\ sigTrace[1].err = "ESRCH" /\ sigTrace[2].err = "nil"
    /\ sigReturn.value = 1

\* ---------------------------------------------------------------- C23
\* C23: Exists(pid) is false only for a pid that is absent; for a live
\* process it is true, also when the signal-0 probe is refused with EPERM.
C23_ExistsIffPresent ==
    sigCall = "exists" =>
        (sigReturn.value <=> sigTrace[1].existed)

\* ---------------------------------------------------------------- C24
\* The command line of a process as text: its arguments, each followed by
\* the separator, shown as a space.
RECURSIVE CommandLine(_)
CommandLine(argv) ==
    IF argv = <<>> THEN <<>> ELSE Head(argv) \o <<" ">> \o CommandLine(Tail(argv))

\* The processes of the table whose command line contains the pattern as a
\* plain substring.
Matching ==
    {i \in DOMAIN procDir :
        /\ procDir[i].isDir /\ procDir[i].numeric
        /\ \E k \in 0..Len(CommandLine(procDir[i].argv)) :
              /\ k + Len(scanPattern) <= Len(CommandLine(procDir[i].argv))
              /\ \A n \in 1..Len(scanPattern) :
                    CommandLine(procDir[i].argv)[k + n] = scanPattern[n]}

NamedPath(a, d) ==
    \A n \in 1..MaxProcs :
        (\E k \in (n + 1)..MaxProcs : Climb(procParent, d, k) = a)
            => procComm[Climb(procParent, d, n)] # ""

C26_RoundTrip ==
    sessionId.done => sessionId.agent = agentId

\* The name has no separator in it.
OneSegment(s) == \A i \in DOMAIN s : s[i] # Sep

\* C26 as amended: the round trip gives the triple back for every rig name
\* without a separator other than "witness", every crew name, and every
\* worker name that is neither "witness" nor "refinery" and does not begin
\* with "crew-".
C26_RoundTripUnambiguous ==
    (/\ sessionId.done
     /\ OneSegment(agentId.rig)
     /\ agentId.rig # <<"witness">>
     /\ agentId.role = "polecat" =>
            /\ agentId.name \notin {<<"witness">>, <<"refinery">>}
            /\ ~(Len(agentId.name) >= 2 /\ agentId.name[1] = "crew"
                                        /\ agentId.name[2] = Sep))
        => sessionId.agent = agentId

\* A crew member of rig acme whose name has a separator in it went through
\* the round trip.
C26_Witness ==
    /\ sessionId.done
    /\ agentId = [rig |-> <<"acme">>, role |-> "crew", name |-> <<"acme", Sep, "crew">>]
    /\ sessionId.name = <<"gt", Sep, "acme", Sep, "crew", Sep, "acme", Sep, "crew">>
    /\ sessionId.agent = agentId

\* ---------------------------------------------------------------- C27
\* The stop sequence of the class ran to its end and more matching
\* processes were counted after it than before it.
RaceUnderflow(c) ==
    /\ bdReturn.done /\ bdInstalled /\ ~bdArgs.dryRun
    /\ bdLocals[c].remaining > bdLocals[c].before

\* C27 as stated: with more matching processes after the stop sequence than
\* before it the killed count is 0, never negative, and StopAllBdProcesses
\* returns no error.
C27_UnderflowIsNoError ==
    \A c \in BdClasses :
        RaceUnderflow(c) => (bdLocals[c].killed = 0 /\ bdReturn.err = "nil")

\* C27 as amended: the killed counts are never negative; with more matching
\* processes after the stop sequence than before it the killed count is 0,
\* and since those processes remain StopAllBdProcesses returns its
\* "shutdown incomplete" error.
C27_UnderflowClamped ==
    bdReturn.done =>
        /\ bdReturn.daemonsKilled >= 0 /\ bdReturn.activityKilled >= 0
        /\ \A c \in BdClasses :
              RaceUnderflow(c) => (bdLocals[c].killed = 0 /\ bdReturn.err # "nil")

\* One daemon before, two after: killed is 0.
C27_Witness ==
    /\ RaceUnderflow("daemon")
    /\ bdLocals.daemon.before = 1 /\ bdLocals.daemon.remaining = 2
    /\ bdReturn.daemonsKilled = 0

\* ---------------------------------------------------------------- C28
\* The escalation of a class that was found running went to its end:
\* SIGKILL when forced, else SIGTERM, the wait, and SIGKILL for what was left.
Escalated(c) ==
    \E i \in DOMAIN bdTrace : bdTrace[i].class = c

\* C28: a call that is not a dry run returns an error exactly when the
\* escalation of the daemon or of the activity processes ended with a count
\* that is not 0, and the killed counts with nil otherwise; a class that was
\* not escalated (no process at the start, or no bd executable) counts as 0
\* remaining.
C28_ErrorIffRemaining ==
    (bdReturn.done /\ ~bdArgs.dryRun) =>
        /\ bdReturn.err # "nil" <=>
              \E c \in BdClasses : Escalated(c) /\ bdLocals[c].remaining > 0
        /\ bdReturn.daemonsKilled = bdLocals.daemon.killed
        /\ bdReturn.activityKilled = bdLocals.activity.killed
        /\ \A c \in BdClasses : ~Escalated(c) => bdLocals[c].remaining = 0

\* Two daemons, one survives SIGTERM and SIGKILL: one killed, and the error.
C28_Witness ==
    /\ bdReturn.done /\ ~bdArgs.force /\ ~bdArgs.dryRun
    /\ bdLocals.daemon.before = 2 /\ bdLocals.daemon.remaining = 1
    /\ [i \in DOMAIN bdTrace |-> <<bdTrace[i].class, bdTrace[i].sig>>] =
           << <<"daemon", "SIGTERM">>, <<"daemon", "SIGKILL">> >>
    /\ bdReturn.daemonsKilled = 1
    /\ bdReturn.err = "bd daemon shutdown incomplete"

\* ---------------------------------------------------------------- C29
\* C29: Fix sends SIGTERM to a candidate only right after the signal-0 probe
\* of the same candidate in the same pass, which is made only when the
\* re-verification passed, and only when that probe succeeded; a candidate
\* whose probe fails gets no SIGTERM and is counted neither as killed nor as
\* an error.
C29_ProbeBeforeKill ==
    /\ \A j \in TermsSent :
          /\ j > 1
          /\ sigLog[j - 1] = <<sigLog[j][1], "0">>
          /\ \E i \in HandledWith({"killed", "killfailed"}) :
                /\ hHandled[i].pid = sigLog[j][1]
                /\ hHandled[i].exists /\ ~hHandled[i].att
    /\ \A i \in 1..Len(hHandled) :
          /\ hHandled[i].outcome = "vanished" <=>
                (~hHandled[i].exists /\ <<hHandled[i].pid, "0">> \in
                                           {sigLog[j] : j \in 1..Len(sigLog)})
          /\ hHandled[i].outcome = "vanished" =>
                SignalsTo(hHandled[i].pid) \cap TermsSent = {}
    /\ killed = Cardinality(HandledWith({"killed", "wouldkill"}))
    /\ lastErr <=> HandledWith({"killfailed"}) # {}

\* One pass probed two candidates: one was gone and got nothing more, the
\* other got its SIGTERM.
C29_Witness ==
    /\ FixReturned /\ ~dryRun
    /\ HandledWith({"vanished"}) # {}
    /\ HandledWith({"killed"}) # {}
    /\ TermsSent # {}

\* ---------------------------------------------------------------- C30
\* The outcomes recorded for the candidates of a pass and what Fix returned.
C30_Outcomes ==
    /\ skipped = Cardinality(HandledWith({"skipped"}))
    /\ \A i \in 1..Len(hHandled) :
          /\ hHandled[i].att => hHandled[i].outcome = "skipped"
          /\ hHandled[i].outcome = "skipped" => SignalsTo(hHandled[i].pid) = {}
          /\ \A k \in 1..Len(hHandled) : hHandled[k].pid = hHandled[i].pid => k = i
    /\ (FixReturned /\ hBegin.paneListed) =>
          /\ \A i \in 1..Len(hHandled) :
                hHandled[i].outcome \in
                    {"skipped", "vanished", "killed", "killfailed", "wouldkill"}
          /\ Len(hHandled) = skipped + killed
                               + Cardinality(HandledWith({"vanished", "killfailed"}))
          /\ fixResult = "err" => HandledWith({"killfailed"}) # {}
          /\ HandledWith({"skipped"}) = 1..Len(hHandled) =>
                (fixResult = "nil" /\ killed = 0 /\ ~lastErr)

\* When the loop ends, the candidates handled are the cached ones, in order.
C30_AllHandled ==
    (pc # "idle" /\ pc' = "idle") =>
        /\ Len(hHandled') = Len(orphanProcesses')
        /\ \A i \in 1..Len(hHandled') : hHandled'[i].pid = orphanProcesses'[i].pid

\* C30: a candidate that fails the re-verification is counted in skipped
\* only, gets no signal and is no error; when the loop has run every cached
\* candidate has exactly one outcome among skipped, vanished, killed (counted
\* so in a dry run too) and kill-failed, Fix returns an error only when some
\* kill failed, and nil when every candidate was skipped.
C30_SkipIsNotFailure == []C30_Outcomes /\ [][C30_AllHandled]_vars

\* A pass in which the only cached candidate had come under a pane again:
\* one skip, nothing killed, nil.
C30_Witness ==
    /\ FixReturned /\ hBegin.paneListed /\ ~dryRun
    /\ Len(hHandled) >= 1
    /\ HandledWith({"skipped"}) = 1..Len(hHandled)
    /\ hHandled[1].att
    /\ skipped = Len(hHandled) /\ killed = 0
    /\ fixResult = "nil"

\* ---- OrphanSessionCheck.Fix and the age of its cache (SessSpec)
\* A step of Fix, whatever its arguments.
SessFixStep == \E dry \in BOOLEAN : \E feedOk \in BOOLEAN : SessFix(dry, feedOk)

\* The sessions a step takes away from the tmux server.
KilledByStep == sessions \ sessions'

\* A session is valid now: the rule of Run applied to the rigs and town
\* sessions as they are when Fix starts.
ValidNow(n) == isValidSession(n, getValidRigs, townSessions[1], townSessions[2])

\* C31: no pass of Fix kills a session that is valid when the pass starts
\* (a session cached as an orphan whose rig has been added since is spared),
\* and a cached session that has disappeared is not killed either.
C31_StaleSnapshotSpared ==
    [][SessFixStep => \A n \in KilledByStep : ~ValidNow(n)]_vars

\* Every cached non-crew session has a KillSession issued for it by a pass of
\* Fix, valid by now or not, still present or not.
C31_KillsWholeCache ==
    [][SessFixStep =>
          \A i \in 1..Len(orphanSessions) :
              ~isCrewSession(orphanSessions[i]) => orphanSessions[i] \in KillsIssued']_vars

\* ---- GetAllDescendants on any child relation (CycleSpec)
\* The child relation has a cycle that the call on descRoot runs into.
RECURSIVE ReachesCycle(_, _, _)
ReachesCycle(pid, path, n) ==
    \/ pid \in path
    \/ /\ n > 0
       /\ \E i \in 1..Len(GetChildren(pid)) :
             ReachesCycle(GetChildren(pid)[i], path \cup {pid}, n - 1)

\* C32: every call of GetAllDescendants returns, whatever the child relation,
\* a cyclic one included: the recursion never exhausts the stack.
C32_ReturnsOnEveryRelation == descResult.done => ~descResult.fatal

\* What the code does: the call returns exactly when it meets no cycle, and
\* then with the list of the descendants.
C32_ReturnsIffAcyclic ==
    descResult.done =>
        /\ descResult.fatal <=> ReachesCycle(descRoot, {}, KillProcs)
        /\ ~descResult.fatal => descResult.list = GetAllDescendants(descRoot)

\* ---- HasDescendantMatching and its visited map (GuardSpec)
\* The pids whose children a finished call has read.
ExpandedPids == {matchResult.expanded[i] : i \in 1..Len(matchResult.expanded)}

\* C33: on any child relation, cyclic ones included, a call of
\* HasDescendantMatching returns after reading the children of every pid at
\* most once and of no pid that was in the visited map it was handed; it
\* returns false, having read nothing, when its pid is already visited, and
\* false when its pid does not exist.
C33_CycleGuarded ==
    matchResult.done =>
        /\ Cardinality(ExpandedPids) = Len(matchResult.expanded)
        /\ ExpandedPids \cap matchResult.before = {}
        /\ matchResult.visited = matchResult.before \cup ExpandedPids
        /\ descRoot \in matchResult.before =>
              ~matchResult.found /\ matchResult.expanded = <<>>
        /\ procGone = descRoot => ~matchResult.found

\* A search that went all the way round a cycle through its own pid and
\* returned false.
C33_Witness ==
    /\ matchResult.done
    /\ matchResult.before = {}
    /\ procGone = 0
    /\ procParent[descRoot] # 0
    /\ Len(matchResult.expanded) = KillProcs
    /\ ~matchResult.found

\* ---- isOrphanProcess and the cached parent (WalkSpec)
\* The parent pid the candidate was cached with by Run.
CachedParent == orphanProcesses[1].ppid

\* Every ancestor after the first was read from the process table: it is the
\* current parent of the ancestor before it, whose lookup succeeded.
LaterStepsCurrent ==
    \A i \in 2..Len(walkResult.trail) :
        /\ walkResult.trail[i - 1] \in alive
        /\ walkResult.trail[i] = parent[walkResult.trail[i - 1]]

\* C34 as stated: every pid the walk compares with the registry was read as a
\* current parent by a lookup that succeeded, also when a lookup fails; the
\* parent cached in the candidate is never used.
C34_NeverCachedParent ==
    WalkDone =>
        /\ LaterStepsCurrent
        /\ walkResult.trail # <<>> =>
              Candidate \in alive /\ walkResult.trail[1] = parent[Candidate]

\* C34 amended: the walk starts at the candidate's current parent when the
\* lookup of the candidate succeeds and at the parent cached by Run when that
\* lookup fails; every further ancestor is the current parent of the one
\* before, and a failed lookup of an ancestor ends the walk.
C34_CachedParentOnlyAsFallback ==
    WalkDone =>
        /\ LaterStepsCurrent
        /\ walkResult.trail # <<>> =>
              walkResult.trail[1] =
                  IF Candidate \in alive THEN parent[Candidate] ELSE CachedParent
        /\ (walkResult.trail # <<>> /\ walkResult.trail[Len(walkResult.trail)] \notin alive
            /\ walkResult.trail[Len(walkResult.trail)] \notin panePIDSet) =>
              walkResult.orphan

\* A live candidate that was reparented after Run: the walk went up from the
\* new parent, not from the cached one, for at least two levels.
C34_Witness ==
    /\ WalkDone /\ Candidate \in alive
    /\ parent[Candidate] # CachedParent
    /\ Len(walkResult.trail) >= 2
    /\ walkResult.trail[1] = parent[Candidate]

\* ---- escalation order of stopBdDaemons / stopBdActivityProcesses (BdSpec)
\* C35: without force, a SIGKILL to a class comes directly after the SIGTERM
\* broadcast to that class and the wait, only when the re-count taken after
\* the wait was not 0, and goes to the pids of the FindByPattern call made
\* after that re-count; SIGTERM goes to the pids of the first FindByPattern
\* call; with force the only signal is SIGKILL and no SIGTERM is sent.
C35_EscalationOrder ==
    \A i \in DOMAIN bdTrace :
        LET e == bdTrace[i]
        IN  /\ bdArgs.force => (e.sig = "SIGKILL" /\ e.scan = "first")
            /\ (~bdArgs.force /\ e.sig = "SIGTERM") => e.scan = "first"
            /\ (~bdArgs.force /\ e.sig = "SIGKILL") =>
                  /\ i > 1
                  /\ bdTrace[i - 1].class = e.class
                  /\ bdTrace[i - 1].sig = "SIGTERM"
                  /\ e.scan = "rescan"
                  /\ e.recount > 0

\* Both classes escalated to SIGKILL without force, after re-counts of 1 and 2
\* that differ from what the class started with.
C35_Witness ==
    /\ bdReturn.done /\ ~bdArgs.force
    /\ [i \in DOMAIN bdTrace |-> <<bdTrace[i].class, bdTrace[i].sig>>] =
           << <<"daemon", "SIGTERM">>, <<"daemon", "SIGKILL">>,
              <<"activity", "SIGTERM">>, <<"activity", "SIGKILL">> >>
    /\ bdTrace[2].recount = 1 /\ bdLocals.daemon.before = 2
    /\ bdTrace[4].recount = 2 /\ bdLocals.activity.before = 1

\* ---- OrphanProcessCheck.Fix when the pane listing fails (Spec)
\* A step in which Fix is called with a non-empty cache and ListPanePIDs fails.
FixPaneListingFails ==
    /\ Len(orphanProcesses) > 0
    /\ \E dry \in BOOLEAN : \E serverErr \in BOOLEAN : FixBegin(dry, TRUE, serverErr)

\* Nothing was done to a candidate: no re-verification and no probe (no
\* candidate handled), no signal, nothing reported, nothing counted.
NoCandidateTouched ==
    /\ hHandled = <<>> /\ sigLog = <<>> /\ dryReport = <<>>
    /\ killed = 0 /\ skipped = 0

\* The last Fix ended on its failed pane listing.
EndedOnPaneListing == fixResult = "err" /\ ~hBegin.paneListed

\* C36: a Fix whose ListPanePIDs call fails returns an error at once, and
\* from then until the next Fix no cached candidate has been re-verified,
\* probed or signaled.
C36_PaneListingFailureStopsFix ==
    /\ [](EndedOnPaneListing => (pc = "idle" /\ NoCandidateTouched))
    /\ [][FixPaneListingFails => (fixResult' = "err" /\ pc' = "idle"
                                   /\ hHandled' = <<>> /\ sigLog' = <<>>)]_vars

\* Fix was called on two cached candidates that are still alive and not
\* attached, the pane listing failed, and both are untouched.
C36_Witness ==
    /\ EndedOnPaneListing
    /\ Len(orphanProcesses) = 2
    /\ \A i \in 1..2 : orphanProcesses[i].pid \in alive
    /\ hBegin.attached = {}
    /\ NoCandidateTouched

\* ---- a runtime process that is the pane's own process (Spec)
\* A step of Run, whatever its listings return.
RunStep ==
    \E serverErr \in BOOLEAN : \E paneErr \in BOOLEAN : \E procErr \in BOOLEAN :
        Run(serverErr, paneErr, procErr)

\* Run caches no process whose own pid is a pane pid when Run executes.
RunSparesPaneProcess ==
    [][RunStep => \A i \in 1..Len(orphanProcesses') :
                      orphanProcesses'[i].pid \notin panes]_vars

\* Fix sends no SIGTERM to a process whose own pid was a pane pid when Fix
\* started.
FixSparesPaneProcess ==
    \A i \in TermsSent : sigLog[i][1] \notin hBegin.panes

\* C37: a runtime process whose own pid is in the pane registry is never
\* cached as an orphan by Run and never sent SIGTERM by Fix, whether the tmux
\* server listing succeeds or fails.
C37_PaneProcessNeverOrphan == []FixSparesPaneProcess /\ RunSparesPaneProcess

\* ---- what OrphanSessionCheck.Fix can kill (SessSpec)
CachedNames == {orphanSessions[i] : i \in 1..Len(orphanSessions)}
ListedNow == {ListSessions[i] : i \in 1..Len(ListSessions)}

\* A step of Run, whatever ListSessions returns.
SessRunStep == \E listErr \in BOOLEAN : SessRun(listErr)

\* C38: in any sequence of Run and Fix calls, every KillSession that Fix
\* issues is for a name that starts with "gt-" (never hq-mayor, never a
\* user's own session) and that is in the cache; the cache changes only in a
\* Run, and then holds only names that ListSessions returned to that Run.
C38_KillsOnlyListedGtSessions ==
    /\ [](\A n \in KillsIssued \cup CachedNames : StartsWithGt(n))
    /\ [][KillsIssued' \subseteq CachedNames \/ ~SessFixStep]_vars
    /\ [][orphanSessions' # orphanSessions =>
              (SessRunStep /\ CachedNames' \subseteq ListedNow)]_vars

\* Fix killed a gt- session listed by the Run before it while hq-mayor or a
\* user's session "work" was listed too, and that one is still there.
C38_Witness ==
    /\ sessFixResult = "nil"
    /\ KillsIssued # {}
    /\ KillsIssued \subseteq {sRun.listed[i] : i \in 1..Len(sRun.listed)}
    /\ \E i \in 1..Len(sRun.listed) : sRun.listed[i] \in {<<"hq", Sep, "mayor">>, <<"work">>}
    /\ sessions \cap {<<"hq", Sep, "mayor">>, <<"work">>} # {}

====
